---- MODULE Spec2Model ----
(***************************************************************************)
(* Model of the chess-bot game state machine (gameReducer), of the two     *)
(* board components that drive the computer's move (MobileChessboard and   *)
(* Chessboard) and of the move selection engine (getAIMove), of the game   *)
(* provider (GameProvider) that keeps the game in local storage, and of    *)
(* the PGN parser (parsePGN, analyzePlayerStyle).                          *)
(*                                                                         *)
(* The rules engine (chess.js) is an external library: the section "Rules  *)
(* engine" models the part of its contract the program calls.              *)
(***************************************************************************)
EXTENDS Integers, Sequences, FiniteSets, TLC

(***************************************************************************)
(* Rules engine: squares and pieces                                        *)
(***************************************************************************)
Squares == 1..64
Sq(f, r) == (r - 1) * 8 + f
FileOf(s) == ((s - 1) % 8) + 1
RankOf(s) == ((s - 1) \div 8) + 1
OnBoard(f, r) == f >= 1 /\ f <= 8 /\ r >= 1 /\ r <= 8

FileName == <<"a", "b", "c", "d", "e", "f", "g", "h">>
RankName == <<"1", "2", "3", "4", "5", "6", "7", "8">>
SqName(s) == FileName[FileOf(s)] \o RankName[RankOf(s)]

Empty == ".."
WhitePieces == {"wp", "wn", "wb", "wr", "wq", "wk"}
BlackPieces == {"bp", "bn", "bb", "br", "bq", "bk"}
PieceColor(p) == IF p \in WhitePieces THEN "w" ELSE "b"
PieceType(p) ==
  CASE p \in {"wp", "bp"} -> "p"
    [] p \in {"wn", "bn"} -> "n"
    [] p \in {"wb", "bb"} -> "b"
    [] p \in {"wr", "br"} -> "r"
    [] p \in {"wq", "bq"} -> "q"
    [] OTHER -> "k"
MkPiece(c, t) ==
  CASE t = "p" -> IF c = "w" THEN "wp" ELSE "bp"
    [] t = "n" -> IF c = "w" THEN "wn" ELSE "bn"
    [] t = "b" -> IF c = "w" THEN "wb" ELSE "bb"
    [] t = "r" -> IF c = "w" THEN "wr" ELSE "br"
    [] t = "q" -> IF c = "w" THEN "wq" ELSE "bq"
    [] OTHER -> IF c = "w" THEN "wk" ELSE "bk"
Other(c) == IF c = "w" THEN "b" ELSE "w"
PiecesOf(c) == IF c = "w" THEN WhitePieces ELSE BlackPieces
Abs(x) == IF x < 0 THEN -x ELSE x
MaxOf(a, b) == IF a > b THEN a ELSE b

KnightSteps == {<<1, 2>>, <<2, 1>>, <<2, -1>>, <<1, -2>>,
                <<-1, -2>>, <<-2, -1>>, <<-2, 1>>, <<-1, 2>>}
KingSteps == {<<1, 0>>, <<1, 1>>, <<0, 1>>, <<-1, 1>>,
              <<-1, 0>>, <<-1, -1>>, <<0, -1>>, <<1, -1>>}
RookDirs == {<<1, 0>>, <<-1, 0>>, <<0, 1>>, <<0, -1>>}
BishopDirs == {<<1, 1>>, <<1, -1>>, <<-1, 1>>, <<-1, -1>>}

StepTargets(s, steps) ==
  {Sq(FileOf(s) + d[1], RankOf(s) + d[2]) :
     d \in {e \in steps : OnBoard(FileOf(s) + e[1], RankOf(s) + e[2])}}
KnightTo == [s \in Squares |-> StepTargets(s, KnightSteps)]
KingTo == [s \in Squares |-> StepTargets(s, KingSteps)]

\* The squares met when walking from s in direction d, nearest first.
RayLen(s, d) ==
  Cardinality({n \in 1..7 : OnBoard(FileOf(s) + n * d[1], RankOf(s) + n * d[2])})
Ray == [s \in Squares |-> [d \in KingSteps |->
          [n \in 1..RayLen(s, d) |-> Sq(FileOf(s) + n * d[1], RankOf(s) + n * d[2])]]]

\* Squares a slider on s reaches along the directions dirs: up to and including
\* the first occupied square of each ray.
SlideReach(board, s, dirs) ==
  UNION {LET r == Ray[s][d]
         IN {r[i] : i \in {k \in 1..Len(r) : \A j \in 1..(k - 1) : board[r[j]] = Empty}} :
         d \in dirs}

\* Squares from which a pawn of colour c attacks s.
PawnAttackers(s, c) ==
  LET r == IF c = "w" THEN RankOf(s) - 1 ELSE RankOf(s) + 1
  IN {Sq(f, r) : f \in {g \in {FileOf(s) - 1, FileOf(s) + 1} : OnBoard(g, r)}}

Attacked(board, s, c) ==
  \/ \E t \in KnightTo[s] : board[t] = MkPiece(c, "n")
  \/ \E t \in KingTo[s] : board[t] = MkPiece(c, "k")
  \/ \E t \in PawnAttackers(s, c) : board[t] = MkPiece(c, "p")
  \/ \E t \in SlideReach(board, s, RookDirs) : board[t] \in {MkPiece(c, "r"), MkPiece(c, "q")}
  \/ \E t \in SlideReach(board, s, BishopDirs) : board[t] \in {MkPiece(c, "b"), MkPiece(c, "q")}

KingSquare(board, c) == CHOOSE s \in Squares : board[s] = MkPiece(c, "k")
InCheckOf(board, c) == Attacked(board, KingSquare(board, c), Other(c))

(***************************************************************************)
(* Rules engine: positions, move generation, move application              *)
(***************************************************************************)
\* A position is what a FEN text holds: piece placement, side to move,
\* castling rights, en passant square (0 for none), halfmove clock and
\* fullmove number.
NoPiece == "none"
PromotionKinds == {"q", "r", "b", "n"}

StartBoard ==
  [s \in Squares |->
     LET back == <<"r", "n", "b", "q", "k", "b", "n", "r">>
     IN CASE RankOf(s) = 1 -> MkPiece("w", back[FileOf(s)])
          [] RankOf(s) = 2 -> "wp"
          [] RankOf(s) = 7 -> "bp"
          [] RankOf(s) = 8 -> MkPiece("b", back[FileOf(s)])
          [] OTHER -> Empty]
StartPos ==
  [board |-> StartBoard, turn |-> "w", castling |-> {"K", "Q", "k", "q"},
   ep |-> 0, half |-> 0, full |-> 1]

MkMove(c, from, to, piece, captured, promotion, flags) ==
  [color |-> c, from |-> from, to |-> to, piece |-> piece,
   captured |-> captured, promotion |-> promotion, flags |-> flags]

LastRank(c) == IF c = "w" THEN 8 ELSE 1
PawnStartRank(c) == IF c = "w" THEN 2 ELSE 7
Forward(c) == IF c = "w" THEN 1 ELSE -1

PawnMoves(pos, s) ==
  LET c == pos.turn
      b == pos.board
      f == FileOf(s)
      r == RankOf(s)
      r1 == r + Forward(c)
      one == Sq(f, r1)
      two == Sq(f, r1 + Forward(c))
      Push == IF OnBoard(f, r1) /\ b[one] = Empty
              THEN IF r1 = LastRank(c)
                   THEN {MkMove(c, s, one, "p", NoPiece, k, "p") : k \in PromotionKinds}
                   ELSE {MkMove(c, s, one, "p", NoPiece, NoPiece, "n")}
                        \cup (IF r = PawnStartRank(c) /\ b[two] = Empty
                              THEN {MkMove(c, s, two, "p", NoPiece, NoPiece, "b")}
                              ELSE {})
              ELSE {}
      Diag == {Sq(g, r1) : g \in {h \in {f - 1, f + 1} : OnBoard(h, r1)}}
      Take(t) == IF b[t] \in PiecesOf(Other(c))
                 THEN IF r1 = LastRank(c)
                      THEN {MkMove(c, s, t, "p", PieceType(b[t]), k, "cp") : k \in PromotionKinds}
                      ELSE {MkMove(c, s, t, "p", PieceType(b[t]), NoPiece, "c")}
                 ELSE IF t = pos.ep
                      THEN {MkMove(c, s, t, "p", "p", NoPiece, "e")}
                      ELSE {}
  IN Push \cup UNION {Take(t) : t \in Diag}

\* Moves of a knight, bishop, rook, queen or king from s to the squares of
\* reach that do not hold a piece of the mover's colour.
PieceMovesTo(pos, s, reach) ==
  LET c == pos.turn
      b == pos.board
  IN {IF b[t] = Empty
      THEN MkMove(c, s, t, PieceType(b[s]), NoPiece, NoPiece, "n")
      ELSE MkMove(c, s, t, PieceType(b[s]), PieceType(b[t]), NoPiece, "c") :
      t \in {u \in reach : b[u] \notin PiecesOf(c)}}

CastleMoves(pos, s) ==
  LET c == pos.turn
      b == pos.board
      r == IF c = "w" THEN 1 ELSE 8
      them == Other(c)
      Free(fs) == \A f \in fs : b[Sq(f, r)] = Empty
      Safe(fs) == \A f \in fs : ~Attacked(b, Sq(f, r), them)
      ks == IF c = "w" THEN "K" ELSE "k"
      qs == IF c = "w" THEN "Q" ELSE "q"
  IN IF s # Sq(5, r) THEN {}
     ELSE (IF ks \in pos.castling /\ Free({6, 7}) /\ Safe({5, 6, 7})
           THEN {MkMove(c, s, Sq(7, r), "k", NoPiece, NoPiece, "k")} ELSE {})
          \cup
          (IF qs \in pos.castling /\ Free({2, 3, 4}) /\ Safe({5, 4, 3})
           THEN {MkMove(c, s, Sq(3, r), "k", NoPiece, NoPiece, "q")} ELSE {})

PseudoMovesFrom(pos, s) ==
  LET t == PieceType(pos.board[s])
  IN CASE t = "p" -> PawnMoves(pos, s)
       [] t = "n" -> PieceMovesTo(pos, s, KnightTo[s])
       [] t = "b" -> PieceMovesTo(pos, s, SlideReach(pos.board, s, BishopDirs))
       [] t = "r" -> PieceMovesTo(pos, s, SlideReach(pos.board, s, RookDirs))
       [] t = "q" -> PieceMovesTo(pos, s, SlideReach(pos.board, s, KingSteps))
       [] OTHER -> PieceMovesTo(pos, s, KingTo[s]) \cup CastleMoves(pos, s)

\* The board after move m.
BoardAfter(b, m) ==
  LET placed == IF m.promotion # NoPiece THEN MkPiece(m.color, m.promotion) ELSE b[m.from]
      r == RankOf(m.from)
  IN [s \in Squares |->
        CASE s = m.from -> Empty
          [] s = m.to -> placed
          [] m.flags = "e" /\ s = Sq(FileOf(m.to), r) -> Empty
          [] m.flags = "k" /\ s = Sq(8, r) -> Empty
          [] m.flags = "k" /\ s = Sq(6, r) -> MkPiece(m.color, "r")
          [] m.flags = "q" /\ s = Sq(1, r) -> Empty
          [] m.flags = "q" /\ s = Sq(4, r) -> MkPiece(m.color, "r")
          [] OTHER -> b[s]]

\* Castling rights lost by a move that leaves or lands on square s.
RightsOf(s) ==
  CASE s = Sq(5, 1) -> {"K", "Q"}
    [] s = Sq(8, 1) -> {"K"}
    [] s = Sq(1, 1) -> {"Q"}
    [] s = Sq(5, 8) -> {"k", "q"}
    [] s = Sq(8, 8) -> {"k"}
    [] s = Sq(1, 8) -> {"q"}
    [] OTHER -> {}

PosAfter(pos, m) ==
  [board |-> BoardAfter(pos.board, m),
   turn |-> Other(pos.turn),
   castling |-> (pos.castling \ RightsOf(m.from)) \ RightsOf(m.to),
   ep |-> IF m.flags = "b" THEN Sq(FileOf(m.from), RankOf(m.from) + Forward(m.color)) ELSE 0,
   half |-> IF m.piece = "p" \/ m.captured # NoPiece THEN 0 ELSE pos.half + 1,
   full |-> IF pos.turn = "b" THEN pos.full + 1 ELSE pos.full]

OwnSquares(pos) == {s \in Squares : pos.board[s] \in PiecesOf(pos.turn)}
IsLegal(pos, m) == ~InCheckOf(BoardAfter(pos.board, m), pos.turn)
LegalMovesFrom(pos, s) ==
  IF pos.board[s] \in PiecesOf(pos.turn)
  THEN {m \in PseudoMovesFrom(pos, s) : IsLegal(pos, m)}
  ELSE {}
LegalMoves(pos) == UNION {LegalMovesFrom(pos, s) : s \in OwnSquares(pos)}
HasLegalMove(pos) == \E s \in OwnSquares(pos) : \E m \in PseudoMovesFrom(pos, s) : IsLegal(pos, m)

(***************************************************************************)
(* Rules engine: notation, game-over predicates, the Chess object          *)
(***************************************************************************)
Upper(t) ==
  CASE t = "p" -> "P" [] t = "n" -> "N" [] t = "b" -> "B"
    [] t = "r" -> "R" [] t = "q" -> "Q" [] OTHER -> "K"

InCheck(pos) == InCheckOf(pos.board, pos.turn)
IsCheckmate(pos) == InCheck(pos) /\ ~HasLegalMove(pos)
IsStalemate(pos) == ~InCheck(pos) /\ ~HasLegalMove(pos)

\* Bishops all standing on squares of one colour.
SquareShade(s) == (FileOf(s) + RankOf(s)) % 2
IsInsufficientMaterial(pos) ==
  LET occ == {s \in Squares : pos.board[s] # Empty}
      bishops == {s \in occ : PieceType(pos.board[s]) = "b"}
      knights == {s \in occ : PieceType(pos.board[s]) = "n"}
      n == Cardinality(occ)
  IN \/ n = 2
     \/ n = 3 /\ (Cardinality(bishops) = 1 \/ Cardinality(knights) = 1)
     \/ n = Cardinality(bishops) + 2 /\ Cardinality({SquareShade(s) : s \in bishops}) = 1

HalfMoveLimit == 100

\* The suffix a move's notation carries: "#" for mate, "+" for check.
CheckSuffix(pos, m) ==
  LET after == PosAfter(pos, m)
  IN IF InCheck(after)
     THEN IF HasLegalMove(after) THEN "+" ELSE "#"
     ELSE ""

\* The other legal moves of a like piece to the same square.
Rivals(legal, m) == {x \in legal : x.piece = m.piece /\ x.to = m.to /\ x.from # m.from}

Disambiguator(rivals, m) ==
  IF rivals = {} THEN ""
  ELSE IF /\ \E x \in rivals : RankOf(x.from) = RankOf(m.from)
          /\ \E x \in rivals : FileOf(x.from) = FileOf(m.from)
       THEN SqName(m.from)
  ELSE IF \E x \in rivals : FileOf(x.from) = FileOf(m.from)
       THEN RankName[RankOf(m.from)]
  ELSE FileName[FileOf(m.from)]

\* Standard algebraic notation of the legal move m in pos.
SanBody(legal, m) ==
  IF m.flags = "k" THEN "O-O"
  ELSE IF m.flags = "q" THEN "O-O-O"
  ELSE (IF m.piece = "p"
        THEN (IF m.captured # NoPiece THEN FileName[FileOf(m.from)] ELSE "")
        ELSE Upper(m.piece) \o Disambiguator(Rivals(legal, m), m))
       \o (IF m.captured # NoPiece THEN "x" ELSE "")
       \o SqName(m.to)
       \o (IF m.promotion # NoPiece THEN "=" \o Upper(m.promotion) ELSE "")
San(pos, m) == SanBody(LegalMoves(pos), m) \o CheckSuffix(pos, m)

\* A move as the verbose list gives it: with its notation, whose suffix is
\* kept apart for the tests the callers make on the text.
Verbose(legal, m, suffix) ==
  [from |-> m.from, to |-> m.to, piece |-> m.piece, color |-> m.color,
   captured |-> m.captured, promotion |-> m.promotion, flags |-> m.flags,
   suffix |-> suffix, san |-> SanBody(legal, m) \o suffix]
VerboseAmong(pos, legal) == {Verbose(legal, m, CheckSuffix(pos, m)) : m \in legal}

\* A Chess object: the current position and the moves made on this object,
\* each with the position it was made in.  An object built from a FEN text
\* starts with an empty history.
NewChess(fen) == [pos |-> fen, history |-> <<>>]
Fen(game) == game.pos
Turn(game) == game.pos.turn
Get(game, s) == game.pos.board[s]
Moves(game) == LegalMoves(game.pos)
VerboseMoves(game) == VerboseAmong(game.pos, LegalMoves(game.pos))
MovesFrom(game, s) == LegalMovesFrom(game.pos, s)
History(game) == [i \in 1..Len(game.history) |-> game.history[i].san]

\* A repetition needs the same position three times among those this
\* object has seen, that is, at least eight moves made on the object.
RepetitionPlies == 8
SamePlacement(p, q) ==
  p.board = q.board /\ p.turn = q.turn /\ p.castling = q.castling /\ p.ep = q.ep
IsThreefoldRepetition(game) ==
  /\ Len(game.history) >= RepetitionPlies
  /\ Cardinality({i \in 1..Len(game.history) :
                    SamePlacement(game.history[i].before, game.pos)}) >= 2
IsDraw(game) ==
  \/ game.pos.half >= HalfMoveLimit
  \/ IsStalemate(game.pos)
  \/ IsInsufficientMaterial(game.pos)
  \/ IsThreefoldRepetition(game)
IsGameOver(game) == IsCheckmate(game.pos) \/ IsDraw(game)

\* game.move({from, to, promotion}): the object after the move, or "throws"
\* when no legal move matches.  Without a promotion a promoting move does
\* not match.
MatchingMoves(game, from, to, promotion) ==
  {m \in MovesFrom(game, from) : m.to = to /\ m.promotion = promotion}
MoveFails(game, from, to, promotion) == MatchingMoves(game, from, to, promotion) = {}
Made(game, m) ==
  [pos |-> PosAfter(game.pos, m),
   history |-> Append(game.history,
                      [san |-> San(game.pos, m), piece |-> m.piece,
                       from |-> m.from, to |-> m.to, before |-> game.pos])]
Move(game, from, to, promotion) ==
  Made(game, CHOOSE x \in MatchingMoves(game, from, to, promotion) : TRUE)

\* game.move(text): the legal moves whose notation is the text, the check
\* and mate marks left aside; the call throws when there is none.
SanMatches(game, text) ==
  LET legal == LegalMoves(game.pos)
  IN {m \in legal : \E mark \in {"", "+", "#"} : SanBody(legal, m) \o mark = text}
MoveSanFails(game, text) == SanMatches(game, text) = {}
MoveSan(game, text) == Made(game, CHOOSE m \in SanMatches(game, text) : TRUE)

\* game.undo(): takes back the last move made on this object; null when the
\* object has no history.
CanUndo(game) == Len(game.history) > 0
Undo(game) ==
  [pos |-> game.history[Len(game.history)].before,
   history |-> SubSeq(game.history, 1, Len(game.history) - 1)]

(***************************************************************************)
(* Game state machine: gameReducer                                         *)
(***************************************************************************)
NoSquare == 0
NoMove == [from |-> NoSquare, to |-> NoSquare, captured |-> NoPiece]
NoStyle ==
  [name |-> "none", aggressiveness |-> 0,
   pieceActivity |-> [queenMoves |-> 0, rookMoves |-> 0, bishopMoves |-> 0,
                      knightMoves |-> 0, pawnMoves |-> 0],
   endgameStyle |-> [kingActivity |-> 0]]
ColorName(c) == IF c = "w" THEN "white" ELSE "black"

initialState ==
  [game |-> NewChess(StartPos),
   fen |-> Fen(NewChess(StartPos)),
   moveHistory |-> <<>>,
   gameStatus |-> "playing",
   difficulty |-> "medium",
   playerColor |-> "white",
   currentTurn |-> "white",
   selectedSquare |-> NoSquare,
   possibleMoves |-> {},
   lastMove |-> NoMove,
   capturedPieces |-> [white |-> <<>>, black |-> <<>>],
   playerStyle |-> NoStyle]

\* Variant of ClearSelection that leaves the selection as it is.
KeepSelection(state) == state

ClearSelection(state) ==
  [state EXCEPT !.selectedSquare = NoSquare, !.possibleMoves = {}]

\* The first move of the verbose list with the payload's from and to.
\* Promotions to one square differ only in the promoted kind, which the
\* reducer does not read from moveDetails.
FindMoveDetails(newGame, payload) ==
  {m \in MovesFrom(newGame, payload.from) : m.to = payload.to}

IsPromotion(newGame, payload) ==
  LET piece == Get(newGame, payload.from)
  IN /\ piece # Empty
     /\ PieceType(piece) = "p"
     /\ \/ PieceColor(piece) = "w" /\ RankOf(payload.to) = 8
        \/ PieceColor(piece) = "b" /\ RankOf(payload.to) = 1

PromotionArg(newGame, payload) ==
  IF IsPromotion(newGame, payload)
  THEN (IF payload.promotion # NoPiece THEN payload.promotion ELSE "q")
  ELSE NoPiece

CapturedName(moveDetails) ==
  (IF moveDetails.color = "w" THEN "b" ELSE "w") \o Upper(moveDetails.captured)

\* Variant of TrackCaptured that files the piece under the colour that took it.
TrackCapturedByTaker(capturedPieces, moveDetails) ==
  IF moveDetails.captured # NoPiece
  THEN IF moveDetails.color = "w"
       THEN [capturedPieces EXCEPT !.white = Append(@, CapturedName(moveDetails))]
       ELSE [capturedPieces EXCEPT !.black = Append(@, CapturedName(moveDetails))]
  ELSE capturedPieces

TrackCaptured(capturedPieces, moveDetails) ==
  IF moveDetails.captured # NoPiece
  THEN IF moveDetails.color = "w"
       THEN [capturedPieces EXCEPT !.black = Append(@, CapturedName(moveDetails))]
       ELSE [capturedPieces EXCEPT !.white = Append(@, CapturedName(moveDetails))]
  ELSE capturedPieces

\* Variant of StatusOf that asks isDraw first.
StatusOfDrawFirst(newGame) ==
  IF IsGameOver(newGame)
  THEN IF IsDraw(newGame) THEN "draw"
       ELSE IF IsCheckmate(newGame.pos) THEN "checkmate"
       ELSE "stalemate"
  ELSE "playing"

StatusOf(newGame) ==
  IF IsGameOver(newGame)
  THEN IF IsCheckmate(newGame.pos) THEN "checkmate"
       ELSE IF IsStalemate(newGame.pos) THEN "stalemate"
       ELSE "draw"
  ELSE "playing"

MoveAccepted(state, payload) ==
  LET newGame == NewChess(state.fen)
  IN /\ payload.from \in Squares
     /\ payload.to \in Squares
     /\ FindMoveDetails(newGame, payload) # {}
     /\ ~MoveFails(newGame, payload.from, payload.to, PromotionArg(newGame, payload))

\* The state returned once newGame.move(...) has succeeded.
MoveMade(state, payload, moveDetails, newGame) ==
  [state EXCEPT
     !.game = newGame,
     !.fen = Fen(newGame),
     !.moveHistory = History(newGame),
     !.gameStatus = StatusOf(newGame),
     !.currentTurn = ColorName(Turn(newGame)),
     !.selectedSquare = NoSquare,
     !.possibleMoves = {},
     !.lastMove = [from |-> payload.from, to |-> payload.to,
                   captured |-> moveDetails.captured],
     !.capturedPieces = TrackCaptured(state.capturedPieces, moveDetails)]

ReduceMakeMove(state, payload) ==
  IF ~MoveAccepted(state, payload)
  THEN ClearSelection(state)
  ELSE MoveMade(state, payload,
                CHOOSE m \in FindMoveDetails(NewChess(state.fen), payload) : TRUE,
                Move(NewChess(state.fen), payload.from, payload.to,
                     PromotionArg(NewChess(state.fen), payload)))

ReduceSetSelectedSquare(state, square) == [state EXCEPT !.selectedSquare = square]
ReduceSetPossibleMoves(state, targets) == [state EXCEPT !.possibleMoves = targets]
ReduceSetDifficulty(state, difficulty) == [state EXCEPT !.difficulty = difficulty]
ReduceSetPlayerColor(state, color) == [state EXCEPT !.playerColor = color]
ReduceSetPlayerStyle(state, style) ==
  [state EXCEPT !.playerStyle = style,
                !.difficulty = IF style # NoStyle THEN "style" ELSE "medium"]

\* Variant of ReduceResetGame that keeps none of the settings.
ResetEverything(state) == initialState

ReduceResetGame(state) ==
  LET newGame == NewChess(StartPos)
  IN [initialState EXCEPT
        !.difficulty = state.difficulty,
        !.playerColor = state.playerColor,
        !.playerStyle = state.playerStyle,
        !.game = newGame,
        !.fen = Fen(newGame),
        !.capturedPieces = [white |-> <<>>, black |-> <<>>]]

UndoAccepted(state) == CanUndo(NewChess(state.fen))

ReduceUndoMove(state) ==
  IF ~UndoAccepted(state)
  THEN state
  ELSE LET first == Undo(NewChess(state.fen))
           newGame == IF state.playerColor # state.currentTurn /\ Len(History(first)) > 0
                      THEN Undo(first)
                      ELSE first
       IN [state EXCEPT
             !.game = newGame,
             !.fen = Fen(newGame),
             !.moveHistory = History(newGame),
             !.gameStatus = "playing",
             !.currentTurn = ColorName(Turn(newGame)),
             !.selectedSquare = NoSquare,
             !.possibleMoves = {},
             !.lastMove = NoMove]

ReduceSetGameStatus(state, status) == [state EXCEPT !.gameStatus = status]

\* LOAD_GAME: the fields of the payload replace those of the state.
ReduceLoadGame(state, payload) ==
  [state EXCEPT
     !.game = payload.game,
     !.fen = payload.fen,
     !.moveHistory = payload.moveHistory,
     !.difficulty = payload.difficulty,
     !.playerColor = payload.playerColor,
     !.playerStyle = payload.playerStyle,
     !.currentTurn = payload.currentTurn]

(***************************************************************************)
(* Move selection engine: getAIMove                                        *)
(*                                                                         *)
(* Scores are kept in thousandths, so that every weight of the source is   *)
(* an integer.  Math.random() * 2 is a term in [0, 2000) added to each     *)
(* move, drawn independently per move.                                     *)
(***************************************************************************)
SanHasCheck(m) == m.suffix = "+"
SanHasMate(m) == m.suffix = "#"
SanHasCapture(m) == m.captured # NoPiece
SanHasCastle(m) == m.flags \in {"k", "q"}

centralSquares ==
  {Sq(4, 4), Sq(4, 5), Sq(5, 4), Sq(5, 5), Sq(3, 4), Sq(3, 5), Sq(6, 4), Sq(6, 5)}

\* pieceValues of getDefensiveTacticalMove, in units.
DefensivePieceValue(t) ==
  CASE t = "p" -> 1 [] t = "n" -> 3 [] t = "b" -> 3
    [] t = "r" -> 5 [] t = "q" -> 9 [] OTHER -> 0

\* The last n entries of a sequence (Array.slice(-n)).
LastEntries(seq, n) ==
  IF Len(seq) <= n THEN seq ELSE SubSeq(seq, Len(seq) - n + 1, Len(seq))

DefensiveScore(game, moves, m) ==
  LET moveCount == Len(game.history)
      captureValue == DefensivePieceValue(m.captured)
      pieceValue == DefensivePieceValue(m.piece)
      recentMoves == LastEntries(game.history, 4)
      samePieceMoved == \E i \in 1..Len(recentMoves) :
                          recentMoves[i].piece = m.piece /\ recentMoves[i].from = m.from
      adjacentFiles == {FileOf(m.to) - 1, FileOf(m.to) + 1}
      hasPawnSupport == \E x \in moves : x.piece = "p" /\ FileOf(x.to) \in adjacentFiles
  IN (IF m.captured # NoPiece
      THEN (IF captureValue >= pieceValue THEN captureValue * 2000 ELSE captureValue * 500)
      ELSE 0)
     + (IF SanHasCheck(m) THEN 3000 ELSE 0)
     + (IF SanHasMate(m) THEN 100000 ELSE 0)
     + (IF m.piece \in {"n", "b"} /\ RankOf(m.from) \in {1, 8} THEN 2000 ELSE 0)
     + (IF m.to \in centralSquares THEN 1500 ELSE 0)
     + (IF SanHasCastle(m) THEN 4000 ELSE 0)
     + (IF moveCount < 16 /\ samePieceMoved THEN -1000 ELSE 0)
     + (IF m.piece = "k" /\ moveCount > 20 THEN 1000 ELSE 0)
     + (IF m.piece = "p" /\ moveCount < 40 /\ hasPawnSupport THEN 500 ELSE 0)

\* pieceValues of getCarlsenStyleMove times 1.5, in thousandths.
CarlsenCaptureScore(t) ==
  CASE t = "p" -> 1500 [] t = "n" -> 4500 [] t = "b" -> 4875
    [] t = "r" -> 7500 [] t = "q" -> 13500 [] OTHER -> 0

strongSquares(t) ==
  CASE t = "n" -> {Sq(4, 5), Sq(5, 5), Sq(4, 4), Sq(5, 4), Sq(6, 5), Sq(6, 4), Sq(3, 5), Sq(3, 4)}
    [] t = "b" -> {Sq(4, 5), Sq(5, 5), Sq(4, 4), Sq(5, 4), Sq(6, 5), Sq(6, 4), Sq(3, 5), Sq(3, 4),
                   Sq(1, 3), Sq(8, 3), Sq(1, 6), Sq(8, 6)}
    [] t = "r" -> {Sq(4, 1), Sq(5, 1), Sq(4, 8), Sq(5, 8), Sq(4, 2), Sq(5, 2), Sq(4, 7), Sq(5, 7),
                   Sq(3, 1), Sq(6, 1), Sq(3, 8), Sq(6, 8)}
    [] t = "q" -> {Sq(4, 3), Sq(5, 3), Sq(4, 6), Sq(5, 6), Sq(3, 3), Sq(6, 3), Sq(3, 6), Sq(6, 6)}
    [] OTHER -> {}

\* game.board() is a list of rows, row 0 being rank 8: row rankIdx holds
\* rank 8 - rankIdx.
BoardRow(game, rankIdx, f) == game.pos.board[Sq(f, 8 - rankIdx)]

\* The source's test for "no opposing pawn ahead" of a pawn on file f seen
\* from rank r, with the row index compared against the rank as written.
IsPassed(game, f, r) ==
  LET turn == Turn(game)
  IN ~\E rankIdx \in 0..7 :
        /\ BoardRow(game, rankIdx, f) = MkPiece(Other(turn), "p")
        /\ \/ turn = "w" /\ rankIdx < r
           \/ turn = "b" /\ rankIdx + 1 > r

IsEndgame(game) ==
  Cardinality({s \in Squares : game.pos.board[s] # Empty
                               /\ PieceType(game.pos.board[s]) # "k"}) <= 10

CarlsenScore(game, m) ==
  LET turn == Turn(game)
      b == game.pos.board
      isEndgame == IsEndgame(game)
      toFile == FileOf(m.to) - 1
      toRank == RankOf(m.to)
      centerDistance2 == Abs(9 - 2 * toFile)
      adjacentFiles == {FileOf(m.to) - 1, FileOf(m.to) + 1}
      hasPawnSupport == \E s \in Squares : b[s] = MkPiece(turn, "p") /\ FileOf(s) \in adjacentFiles
      kingSquares == {s \in Squares : b[s] = MkPiece(Other(turn), "k")}
      distance(k) == MaxOf(Abs((FileOf(k) - 1) - toFile), Abs(RankOf(k) - toRank))
      isBehindPassedPawn ==
        \E s \in Squares :
          /\ b[s] = MkPiece(turn, "p")
          /\ IsPassed(game, FileOf(s), RankOf(s))
          /\ FileOf(m.to) = FileOf(s)
          /\ \/ turn = "w" /\ RankOf(m.to) > RankOf(s)
             \/ turn = "b" /\ RankOf(m.to) < RankOf(s)
  IN (IF m.captured # NoPiece THEN CarlsenCaptureScore(m.captured) ELSE 0)
     + (IF m.piece = "k"
        THEN (IF isEndgame
              THEN 1500 + (8 - centerDistance2) * 250
              ELSE (IF toRank \in {1, 8} THEN -1000 ELSE 0))
        ELSE 0)
     + (IF m.piece = "p"
        THEN (IF IsPassed(game, FileOf(m.to), toRank)
              THEN 3000 + (IF isEndgame THEN 2000 ELSE 0)
              ELSE 0)
             + (IF ~hasPawnSupport THEN -1500 ELSE 0)
        ELSE 0)
     + (IF m.to \in strongSquares(m.piece) THEN 1500 ELSE 0)
     + (IF SanHasCheck(m) THEN 3000 ELSE 0)
     + (IF SanHasMate(m) THEN 100000 ELSE 0)
     + (IF SanHasCapture(m) /\ ~isEndgame THEN 1500 ELSE 0)
     + (IF m.piece # "k" /\ kingSquares # {}
        THEN (8 - distance(CHOOSE k \in kingSquares : TRUE)) * 300
        ELSE 0)
     + (IF isEndgame /\ m.piece = "k" THEN 1500 ELSE 0)
     + (IF isEndgame /\ m.piece = "r" /\ isBehindPassedPawn THEN 2500 ELSE 0)

PositionalScore(game, m) ==
  (IF m.piece \in {"n", "b"} THEN 2000 ELSE 0)
  + (IF SanHasCastle(m) THEN 3000 ELSE 0)
  + (IF m.to \in centralSquares THEN 2000 ELSE 0)
  + (IF m.piece = "q" /\ Len(game.history) < 10 THEN -2000 ELSE 0)

StyleScore(game, playerStyle, m) ==
  LET moveCount == Len(game.history)
      gamePhase == IF moveCount < 15 THEN "opening"
                   ELSE IF moveCount < 50 THEN "middlegame" ELSE "endgame"
  IN (IF m.captured # NoPiece THEN playerStyle.aggressiveness * 50 ELSE 0)
     + (CASE m.piece = "q" -> playerStyle.pieceActivity.queenMoves * 5
          [] m.piece = "r" -> playerStyle.pieceActivity.rookMoves * 5
          [] m.piece = "b" -> playerStyle.pieceActivity.bishopMoves * 5
          [] m.piece = "n" -> playerStyle.pieceActivity.knightMoves * 5
          [] m.piece = "p" -> playerStyle.pieceActivity.pawnMoves * 5
          [] OTHER -> 0)
     + (IF gamePhase = "endgame" /\ m.piece = "k"
        THEN playerStyle.endgameStyle.kingActivity * 10 ELSE 0)

\* Math.random() * 2, in thousandths: the jitter is below this.
JitterSpan == 2000

\* Variant of TopCount30 without Math.max(1, ...).
TopCount30Unclamped(n) == (n * 3) \div 10

\* Math.max(1, Math.floor(n * 0.3)) and Math.max(1, Math.floor(n * 0.2)).
TopCount30(n) == MaxOf(1, (n * 3) \div 10)
TopCount20AsWide(n) == MaxOf(1, (n * 3) \div 10)
TopCount20(n) == MaxOf(1, n \div 5)

\* The moves that sorting by score and drawing from the first topCount can
\* return: a move is among the first topCount for some jitter exactly when
\* fewer than topCount moves beat it whatever the jitter, that is, have a
\* fixed score at least JitterSpan higher.
PickFromTop(scoredMoves, topCount) ==
  {p[1] : p \in {q \in scoredMoves :
                   Cardinality({x \in scoredMoves : x[2] >= q[2] + JitterSpan}) < topCount}}

DefensiveAmong(game, moves) ==
  PickFromTop({<<m, DefensiveScore(game, moves, m)>> : m \in moves},
              TopCount30(Cardinality(moves)))
getDefensiveTacticalMove(game) == DefensiveAmong(game, VerboseMoves(game))

CarlsenAmong(game, moves) ==
  PickFromTop({<<m, CarlsenScore(game, m)>> : m \in moves}, TopCount20(Cardinality(moves)))
getCarlsenStyleMove(game) == CarlsenAmong(game, VerboseMoves(game))

PositionalAmong(game, moves) ==
  PickFromTop({<<m, PositionalScore(game, m)>> : m \in moves}, TopCount30(Cardinality(moves)))
getPositionalMove(game) == PositionalAmong(game, VerboseMoves(game))

StyleAmong(game, playerStyle, moves) ==
  PickFromTop({<<m, StyleScore(game, playerStyle, m)>> : m \in moves},
              TopCount30(Cardinality(moves)))
getStyleBasedMove(game, playerStyle) == StyleAmong(game, playerStyle, VerboseMoves(game))

\* The fixed part of the score the function chosen by getAIMove gives m,
\* the jitter left aside.
ScoreOf(game, config, moves, m) ==
  CASE config.personality = "defensive-tactical" -> DefensiveScore(game, moves, m)
    [] config.personality = "positional" -> PositionalScore(game, m)
    [] config.personality = "style-based" /\ config.playerStyle # NoStyle ->
         StyleScore(game, config.playerStyle, m)
    [] OTHER -> CarlsenScore(game, m)

\* getAIMove: the set of moves a call can return; the empty set stands for
\* the null it returns when the position has no legal move.  "aggressive",
\* "balanced", "style-based" without a profile and the default all call
\* getCarlsenStyleMove.
getAIMove(game, config) ==
  IF Moves(game) = {} THEN {}
  ELSE CASE config.personality = "defensive-tactical" -> getDefensiveTacticalMove(game)
         [] config.personality = "positional" -> getPositionalMove(game)
         [] config.personality = "style-based" /\ config.playerStyle # NoStyle ->
              getStyleBasedMove(game, config.playerStyle)
         [] OTHER -> getCarlsenStyleMove(game)

gameReducer(state, action) ==
  CASE action.type = "MAKE_MOVE" -> ReduceMakeMove(state, action.move)
    [] action.type = "SET_SELECTED_SQUARE" -> ReduceSetSelectedSquare(state, action.square)
    [] action.type = "SET_POSSIBLE_MOVES" -> ReduceSetPossibleMoves(state, action.targets)
    [] action.type = "SET_DIFFICULTY" -> ReduceSetDifficulty(state, action.value)
    [] action.type = "SET_PLAYER_COLOR" -> ReduceSetPlayerColor(state, action.value)
    [] action.type = "SET_PLAYER_STYLE" -> ReduceSetPlayerStyle(state, action.style)
    [] action.type = "RESET_GAME" -> ReduceResetGame(state)
    [] action.type = "UNDO_MOVE" -> ReduceUndoMove(state)
    [] action.type = "SET_GAME_STATUS" -> ReduceSetGameStatus(state, action.status)
    [] action.type = "LOAD_GAME" -> ReduceLoadGame(state, action.loaded)
    [] OTHER -> state

(***************************************************************************)
(* The board components: effects, timers and click handlers                *)
(***************************************************************************)
\* Bounds of the model.
MaxPly == 2
MaxTimers == 2
MaxResets == 1

VARIABLES
  component,     \* the board component mounted: "MobileChessboard" or "Chessboard"
  state,         \* the reducer's state, all dispatched actions applied
  queue,         \* actions dispatched and not yet reduced, oldest first
  view,          \* the state of the last render: what handlers and effects close over
  mounted,       \* the first render has happened
  gameReplaced,  \* state.game is another object than view.game
  thinkTimers,   \* pending "thinking" timeouts, each with the state it closed over
  moveTimers,    \* pending animation timeouts, each with the move it will dispatch
  plies,         \* moves applied since the last reset
  applied,       \* the position and history before the latest applied move
  ev,            \* the action the reducer handled last, or the click handled since
  resets,        \* restarts asked for
  probe,         \* the engine's answer to the last question put to it directly
  storage,       \* localStorage: the snapshot under the key "smartchess-game"
  sessions,      \* page loads after the first
  pgn,           \* PGNUpload: the text of the file read, the games parsed, the profile
  upload         \* PGNUpload: handleFile's position, its promises and timers, what is shown

vars == <<component, state, queue, view, mounted, gameReplaced,
          thinkTimers, moveTimers, plies, applied, ev, resets, probe, storage, sessions, pgn, upload>>

NoPayload == [from |-> NoSquare, to |-> NoSquare, promotion |-> NoPiece]
\* The payload of actions other than LOAD_GAME.
NoLoad ==
  [game |-> NewChess(StartPos), fen |-> StartPos, moveHistory |-> <<>>,
   difficulty |-> "none", playerColor |-> "none", playerStyle |-> NoStyle,
   currentTurn |-> "none"]
Dispatch(type, by, stale) ==
  [type |-> type, move |-> NoPayload, square |-> NoSquare, targets |-> {},
   status |-> "none", value |-> "none", style |-> NoStyle, loaded |-> NoLoad,
   by |-> by, stale |-> stale]
MakeMoveAction(from, to, promotion, by, stale) ==
  [Dispatch("MAKE_MOVE", by, stale) EXCEPT
     !.move = [from |-> from, to |-> to, promotion |-> promotion]]
SetSelectedSquare(square) == [Dispatch("SET_SELECTED_SQUARE", "human", FALSE) EXCEPT !.square = square]
SetPossibleMoves(targets) == [Dispatch("SET_POSSIBLE_MOVES", "human", FALSE) EXCEPT !.targets = targets]
SetGameStatus(status, by) == [Dispatch("SET_GAME_STATUS", by, FALSE) EXCEPT !.status = status]

Rendered == mounted /\ queue = <<>> /\ view = state /\ ~gameReplaced
TimerCount == Cardinality(thinkTimers) + Cardinality(moveTimers)

Accepted(s, action) ==
  CASE action.type = "MAKE_MOVE" -> MoveAccepted(s, action.move)
    [] action.type = "UNDO_MOVE" -> UndoAccepted(s)
    [] OTHER -> TRUE

\* The actions that replace the position held by the state when they are
\* carried out.
PositionActions == {"MAKE_MOVE", "UNDO_MOVE", "RESET_GAME", "LOAD_GAME"}

Stale(timers) == {[t EXCEPT !.stale = TRUE] : t \in timers}

\* useReducer: the oldest dispatched action is reduced, to the state
\* reduced; ok tells whether a move or an undo was carried out.
Reduced(action, ok, reduced) ==
  /\ state' = reduced
  /\ queue' = Tail(queue)
  /\ ev' = [type |-> action.type, ok |-> ok, by |-> action.by, stale |-> action.stale]
  /\ gameReplaced' = (gameReplaced \/ (ok /\ action.type \in PositionActions))
  /\ thinkTimers' = IF ok /\ action.type \in PositionActions
                    THEN Stale(thinkTimers) ELSE thinkTimers
  /\ moveTimers' = IF ok /\ action.type \in PositionActions
                   THEN Stale(moveTimers) ELSE moveTimers
  /\ plies' = CASE action.type = "MAKE_MOVE" /\ ok -> plies + 1
                [] action.type = "RESET_GAME" -> 0
                [] OTHER -> plies
  /\ applied' = CASE action.type = "MAKE_MOVE" /\ ok ->
                       [fen |-> state.fen, moveHistory |-> state.moveHistory,
                        latest |-> TRUE]
                  [] ok /\ action.type \in PositionActions ->
                       [fen |-> reduced.fen, moveHistory |-> reduced.moveHistory,
                        latest |-> FALSE]
                  [] OTHER -> applied
  /\ UNCHANGED <<component, view, mounted, resets, probe, storage, sessions, pgn, upload>>

Reduce ==
  /\ queue # <<>>
  /\ Reduced(Head(queue), Accepted(state, Head(queue)), gameReducer(state, Head(queue)))

\* What the AI effect's timeout callback reads of the state it closed over.
Closure(s) ==
  [game |-> s.game, fen |-> s.fen, difficulty |-> s.difficulty, playerStyle |-> s.playerStyle]

MobileDeps(s) ==
  <<s.currentTurn, s.playerColor, s.gameStatus, s.fen, s.difficulty, s.playerStyle,
    Len(s.moveHistory)>>
ChessboardDeps(s) ==
  <<s.currentTurn, s.playerColor, s.gameStatus, s.fen, s.difficulty, s.game>>
DepsChanged ==
  \/ ~mounted
  \/ component = "MobileChessboard" /\ MobileDeps(state) # MobileDeps(view)
  \/ component = "Chessboard" /\ (ChessboardDeps(state) # ChessboardDeps(view) \/ gameReplaced)

AITurnOfEitherSide(s) == s.gameStatus = "playing"
AITurn(s) == s.currentTurn # s.playerColor /\ s.gameStatus = "playing"

\* A render with the state reduced so far, followed by the AI effect when
\* one of its dependencies changed.  MobileChessboard's effect returns a
\* cleanup that clears the timeout of its previous run; Chessboard's does
\* not.
Render ==
  /\ queue = <<>>
  /\ ~Rendered
  /\ view' = state
  /\ mounted' = TRUE
  /\ gameReplaced' = FALSE
  /\ LET kept == IF DepsChanged /\ component = "MobileChessboard" THEN {} ELSE thinkTimers
     IN IF DepsChanged /\ AITurn(state)
        THEN /\ Cardinality(kept) + Cardinality(moveTimers) < MaxTimers
             /\ queue' = <<SetGameStatus("thinking", "ai")>>
             /\ thinkTimers' = kept \cup {[closure |-> Closure(state), stale |-> FALSE]}
        ELSE /\ queue' = queue
             /\ thinkTimers' = kept
  /\ UNCHANGED <<component, state, moveTimers, plies, applied, ev, resets, probe, storage, sessions, pgn, upload>>

Personality(closure) ==
  IF closure.difficulty = "style" /\ closure.playerStyle # NoStyle THEN "style-based"
  ELSE IF closure.difficulty = "easy" THEN "defensive-tactical"
  ELSE IF closure.difficulty = "medium" THEN "balanced"
  ELSE IF closure.difficulty = "hard" THEN "aggressive"
  ELSE "defensive-tactical"

\* What the thinking timeout of MobileChessboard does with the engine's
\* answer: null sets the status back to "playing"; a move sets the
\* animation timeout.
MobileSelected(t, selected) ==
  IF selected = {}
  THEN /\ queue' = <<SetGameStatus("playing", "ai")>>
       /\ moveTimers' = moveTimers
  ELSE /\ \E m \in selected :
            moveTimers' = moveTimers \cup
                          {[move |-> [from |-> m.from, to |-> m.to,
                                      promotion |-> m.promotion],
                            by |-> "ai", stale |-> t.stale]}
       /\ queue' = queue

\* MobileChessboard, the thinking timeout: the engine picks a move on the
\* game closed over, and a second timeout is set to dispatch it.  Time is
\* not measured: a pending timeout may fire as soon as the dispatched
\* actions are reduced, before or after the render that follows them.
MobileThinkTimeout ==
  /\ component = "MobileChessboard"
  /\ queue = <<>>
  /\ \E t \in thinkTimers :
       /\ thinkTimers' = thinkTimers \ {t}
       /\ MobileSelected(t, getAIMove(t.closure.game,
                                      [personality |-> Personality(t.closure),
                                       playerStyle |-> t.closure.playerStyle]))
  /\ UNCHANGED <<component, state, view, mounted, gameReplaced, plies, applied, ev, resets, probe, storage, sessions, pgn, upload>>

\* MobileChessboard, the animation timeout: the move is dispatched, then
\* the status is set to "playing".
MobileMoveTimeout ==
  /\ component = "MobileChessboard"
  /\ queue = <<>>
  /\ \E t \in moveTimers :
       /\ MoveAccepted(state, t.move) => plies < MaxPly
       /\ moveTimers' = moveTimers \ {t}
       /\ queue' = <<MakeMoveAction(t.move.from, t.move.to, t.move.promotion, t.by, t.stale),
                     SetGameStatus("playing", "ai")>>
  /\ UNCHANGED <<component, state, view, mounted, gameReplaced, thinkTimers, plies, applied, ev, resets, probe, storage, sessions, pgn, upload>>

\* Chessboard's own move choice, by difficulty.  Where the source takes the
\* first of the captures sorted by value, any capture of the highest value
\* may be that first one.
Captures(moves) == {m \in moves : m.captured # NoPiece}
BestCaptures(captures) ==
  {m \in captures :
     \A x \in captures : DefensivePieceValue(x.captured) <= DefensivePieceValue(m.captured)}
Checks(closure, moves) == {m \in moves : InCheck(PosAfter(closure.fen, m))}
CenterMoves(moves) == {m \in moves : m.to \in {Sq(4, 4), Sq(4, 5), Sq(5, 4), Sq(5, 5)}}
OrElse(first, second) == IF first # {} THEN first ELSE second

ChessboardSelect(closure, moves) ==
  IF closure.difficulty = "easy" THEN moves
  ELSE IF closure.difficulty = "medium"
       THEN OrElse(Captures(moves), OrElse(Checks(closure, moves), moves))
  ELSE OrElse(BestCaptures(Captures(moves)), OrElse(CenterMoves(moves), moves))

\* What the thinking timeout of Chessboard does with the legal moves of the
\* game it closed over.
ChessboardSelected(t, moves) ==
  IF moves = {}
  THEN moveTimers' = moveTimers
  ELSE \E m \in ChessboardSelect(t.closure, moves) :
         moveTimers' = moveTimers \cup
                       {[move |-> [from |-> m.from, to |-> m.to, promotion |-> NoPiece],
                         by |-> "ai", stale |-> t.stale]}

\* Chessboard, the thinking timeout: a move is picked on the game closed
\* over and a second timeout is set to dispatch it; the status is set to
\* "playing" at once.
ChessboardThinkTimeout ==
  /\ component = "Chessboard"
  /\ queue = <<>>
  /\ \E t \in thinkTimers :
       /\ thinkTimers' = thinkTimers \ {t}
       /\ ChessboardSelected(t, Moves(t.closure.game))
       /\ queue' = <<SetGameStatus("playing", "ai")>>
  /\ UNCHANGED <<component, state, view, mounted, gameReplaced, plies, applied, ev, resets, probe, storage, sessions, pgn, upload>>

\* Chessboard, an animation timeout (of the computer's move or of the
\* player's): the move is dispatched.
ChessboardMoveTimeout ==
  /\ component = "Chessboard"
  /\ queue = <<>>
  /\ \E t \in moveTimers :
       /\ MoveAccepted(state, t.move) => plies < MaxPly
       /\ moveTimers' = moveTimers \ {t}
       /\ queue' = <<MakeMoveAction(t.move.from, t.move.to, t.move.promotion, t.by, t.stale)>>
  /\ UNCHANGED <<component, state, view, mounted, gameReplaced, thinkTimers, plies, applied, ev, resets, probe, storage, sessions, pgn, upload>>

\* The squares the player clicks.
ClickSquares == {Sq(5, 2), Sq(5, 4), Sq(5, 7), Sq(5, 5), Sq(6, 6), Sq(7, 5)}

OwnPiece(s, square) ==
  /\ Get(s.game, square) # Empty
  /\ PieceColor(Get(s.game, square)) = (IF s.playerColor = "white" THEN "w" ELSE "b")

Targets(s, square) == {m.to : m \in MovesFrom(s.game, square)}

\* The promotion MobileChessboard's click handler passes: a queen when the
\* selected piece is a pawn reaching the last rank.
ClickPromotion(s, square) ==
  LET piece == Get(s.game, s.selectedSquare)
  IN IF /\ piece # Empty
        /\ PieceType(piece) = "p"
        /\ \/ PieceColor(piece) = "w" /\ RankOf(square) = 8
           \/ PieceColor(piece) = "b" /\ RankOf(square) = 1
     THEN "q"
     ELSE NoPiece

\* Variant of MobileClickDispatches without the guard on turn and status.
MobileClickDispatchesUnguarded(s, square) ==
  IF s.selectedSquare = square
  THEN <<SetSelectedSquare(NoSquare), SetPossibleMoves({})>>
  ELSE IF s.selectedSquare # NoSquare /\ square \in s.possibleMoves
       THEN <<MakeMoveAction(s.selectedSquare, square, ClickPromotion(s, square),
                             "human", FALSE)>>
  ELSE IF OwnPiece(s, square)
       THEN <<SetSelectedSquare(square), SetPossibleMoves(Targets(s, square))>>
  ELSE <<SetSelectedSquare(NoSquare), SetPossibleMoves({})>>

\* MobileChessboard.handleSquareClick, as a list of dispatched actions.
MobileClickDispatches(s, square) ==
  IF s.currentTurn # s.playerColor \/ s.gameStatus # "playing" THEN <<>>
  ELSE IF s.selectedSquare = square
       THEN <<SetSelectedSquare(NoSquare), SetPossibleMoves({})>>
  ELSE IF s.selectedSquare # NoSquare /\ square \in s.possibleMoves
       THEN <<MakeMoveAction(s.selectedSquare, square, ClickPromotion(s, square),
                             "human", FALSE)>>
  ELSE IF OwnPiece(s, square)
       THEN <<SetSelectedSquare(square), SetPossibleMoves(Targets(s, square))>>
  ELSE <<SetSelectedSquare(NoSquare), SetPossibleMoves({})>>

DispatchesMove(actions) == \E i \in 1..Len(actions) : actions[i].type = "MAKE_MOVE"

\* What ev holds after a click: whether the handler dispatched an action or
\* set a timeout.
Click(acted) == [type |-> "CLICK", ok |-> acted, by |-> "human", stale |-> FALSE]

MobileSquareClick ==
  /\ component = "MobileChessboard"
  /\ Rendered
  /\ \E square \in ClickSquares :
       LET actions == MobileClickDispatches(view, square)
       IN /\ DispatchesMove(actions) => plies < MaxPly
          /\ queue' = actions
          /\ ev' = Click(actions # <<>>)
  /\ UNCHANGED <<component, state, view, mounted, gameReplaced, thinkTimers, moveTimers,
                 plies, applied, resets, probe, storage, sessions, pgn, upload>>

\* Chessboard.handleSquareClick, the actions it dispatches at once: a click
\* on a square that is neither the selection, a target nor an own piece
\* dispatches nothing.
ChessboardClickDispatches(s, square) ==
  IF s.currentTurn # s.playerColor \/ s.gameStatus # "playing" THEN <<>>
  ELSE IF s.selectedSquare = square
       THEN <<SetSelectedSquare(NoSquare), SetPossibleMoves({})>>
  ELSE IF s.selectedSquare # NoSquare /\ square \in s.possibleMoves THEN <<>>
  ELSE IF OwnPiece(s, square)
       THEN <<SetSelectedSquare(square), SetPossibleMoves(Targets(s, square))>>
  ELSE <<>>

\* Chessboard.handleSquareClick, the timeouts it sets: the player's move is
\* dispatched by a timeout.
ChessboardClickTimers(s, square) ==
  IF s.currentTurn # s.playerColor \/ s.gameStatus # "playing" THEN {}
  ELSE IF s.selectedSquare = square THEN {}
  ELSE IF s.selectedSquare # NoSquare /\ square \in s.possibleMoves
       THEN {[move |-> [from |-> s.selectedSquare, to |-> square, promotion |-> NoPiece],
              by |-> "human", stale |-> FALSE]}
  ELSE {}

ChessboardSquareClick ==
  /\ component = "Chessboard"
  /\ Rendered
  /\ \E square \in ClickSquares :
       LET actions == ChessboardClickDispatches(view, square)
           timers == ChessboardClickTimers(view, square)
       IN /\ timers # {} => TimerCount < MaxTimers
          /\ queue' = actions
          /\ moveTimers' = moveTimers \cup timers
          /\ ev' = Click(actions # <<>> \/ timers # {})
  /\ UNCHANGED <<component, state, view, mounted, gameReplaced, thinkTimers,
                 plies, applied, resets, probe, storage, sessions, pgn, upload>>

\* handleRestart.
Restart ==
  /\ Rendered
  /\ resets < MaxResets
  /\ resets' = resets + 1
  /\ queue' = <<Dispatch("RESET_GAME", "human", FALSE)>>
  /\ UNCHANGED <<component, state, view, mounted, gameReplaced, thinkTimers, moveTimers,
                 plies, applied, ev, probe, storage, sessions, pgn, upload>>

\* handleUndo, behind a button that is disabled while the history is empty
\* or the status is "thinking".
UndoClick ==
  /\ Rendered
  /\ Len(view.moveHistory) # 0
  /\ view.gameStatus # "thinking"
  /\ queue' = <<Dispatch("UNDO_MOVE", "human", FALSE)>>
  /\ UNCHANGED <<component, state, view, mounted, gameReplaced, thinkTimers, moveTimers,
                 plies, applied, ev, resets, probe, storage, sessions, pgn, upload>>

(***************************************************************************)
(* GameProvider: the saved snapshot, and the settings of the screens       *)
(***************************************************************************)
Screens == {"MobileChessApp", "GameScreen"}

\* A style profile as analyzePlayerStyle gives one.
SampleStyle ==
  [name |-> "sample", aggressiveness |-> 40,
   pieceActivity |-> [queenMoves |-> 60, rookMoves |-> 80, bishopMoves |-> 120,
                      knightMoves |-> 140, pawnMoves |-> 400],
   endgameStyle |-> [kingActivity |-> 30]]

\* Bounds of the sessions followed.
MaxSessionPly == 3
MaxReloads == 1

\* Nothing under the key.  full tells whether localStorage.setItem throws
\* in this session (the storage is full, or refuses to write).
NoSnapshot ==
  [saved |-> FALSE, full |-> FALSE, fen |-> StartPos, moveHistory |-> <<>>,
   difficulty |-> "none", playerColor |-> "none", playerStyle |-> NoStyle]

\* gameData of the save effect, as JSON.parse gives it back: text, lists of
\* text and records of numbers come back as they were written.
Snapshot(s) ==
  [saved |-> TRUE, full |-> FALSE, fen |-> s.fen, moveHistory |-> s.moveHistory,
   difficulty |-> s.difficulty, playerColor |-> s.playerColor,
   playerStyle |-> s.playerStyle]

\* What is under the key after the save effect: localStorage.setItem has
\* stored gameData, or it has thrown and the catch has left what was there.
Saved(s, stored) == IF stored.full THEN stored ELSE Snapshot(s)

\* The dependencies of the save effect.
SaveDeps(s) == <<s.fen, s.moveHistory, s.difficulty, s.playerColor, s.playerStyle>>

\* The replay of the load effect: the moves are made one by one on game;
\* ok is FALSE when one of them throws.
RECURSIVE Replayed(_, _)
Replayed(game, moves) ==
  IF moves = <<>>
  THEN [ok |-> TRUE, game |-> game]
  ELSE IF MoveSanFails(game, Head(moves))
       THEN [ok |-> FALSE, game |-> game]
       ELSE Replayed(MoveSan(game, Head(moves)), Tail(moves))

LoadGame(game, gameData) ==
  [Dispatch("LOAD_GAME", "provider", FALSE) EXCEPT
     !.loaded = [game |-> game, fen |-> Fen(game), moveHistory |-> History(game),
                 difficulty |-> gameData.difficulty,
                 playerColor |-> gameData.playerColor,
                 playerStyle |-> gameData.playerStyle,
                 currentTurn |-> ColorName(Turn(game))]]

\* What the load effect dispatches on what it finds under the key.
Restored(gameData, replayed) ==
  IF gameData.saved /\ replayed.ok THEN <<LoadGame(replayed.game, gameData)>> ELSE <<>>
LoadEffect(gameData) == Restored(gameData, Replayed(NewChess(StartPos), gameData.moveHistory))

\* The first render of a session: the save effect runs, then the load
\* effect, in the order the provider declares them.
ProviderMount ==
  /\ ~mounted
  /\ queue = <<>>
  /\ storage' = Saved(state, storage)
  /\ queue' = LoadEffect(storage')
  /\ mounted' = TRUE
  /\ view' = state
  /\ gameReplaced' = FALSE
  /\ UNCHANGED <<component, state, thinkTimers, moveTimers, plies, applied, ev, resets,
                 probe, sessions, pgn, upload>>

\* A later render: the save effect runs when one of its dependencies has
\* changed.  A replaced game counts as a changed moveHistory.
ProviderRender ==
  /\ mounted
  /\ queue = <<>>
  /\ ~Rendered
  /\ view' = state
  /\ gameReplaced' = FALSE
  /\ IF SaveDeps(state) # SaveDeps(view) \/ gameReplaced
     THEN storage' = Saved(state, storage)
     ELSE storage' = storage
  /\ UNCHANGED <<component, state, queue, mounted, thinkTimers, moveTimers, plies, applied,
                 ev, resets, probe, sessions, pgn, upload>>

\* The page is loaded again: a new session starts from initialState, with
\* what the last one left under the key.
Reload ==
  /\ Rendered
  /\ sessions < MaxReloads
  /\ sessions' = sessions + 1
  /\ component' \in Screens
  /\ state' = initialState
  /\ view' = initialState
  /\ mounted' = FALSE
  /\ plies' = 0
  /\ storage' \in {[storage EXCEPT !.full = full] : full \in BOOLEAN}
  /\ applied' = [fen |-> initialState.fen, moveHistory |-> <<>>, latest |-> FALSE]
  /\ ev' = [type |-> "none", ok |-> FALSE, by |-> "none", stale |-> FALSE]
  /\ UNCHANGED <<queue, gameReplaced, thinkTimers, moveTimers, resets, probe, pgn, upload>>

\* The moves the boards dispatch in the sessions followed, by from and to:
\* 1. e4 d5, then 2. exd5 or 2. Nf3.
BookMoves ==
  {<<Sq(5, 2), Sq(5, 4)>>, <<Sq(4, 7), Sq(4, 5)>>, <<Sq(5, 4), Sq(4, 5)>>,
   <<Sq(7, 1), Sq(6, 3)>>}
InBook(fen, b) ==
  \/ b = <<Sq(5, 2), Sq(5, 4)>>
  \/ fen.board[Sq(5, 4)] = "wp"

\* A board dispatches a move of the position rendered: the player's, or
\* the computer's reply.
BoardMove ==
  /\ Rendered
  /\ plies < MaxSessionPly
  /\ view.gameStatus = "playing"
  /\ \E b \in BookMoves :
       /\ InBook(view.fen, b)
       /\ \E m \in MovesFrom(view.game, b[1]) : m.to = b[2]
       /\ queue' = <<MakeMoveAction(b[1], b[2], NoPiece, "board", FALSE)>>
  /\ UNCHANGED <<component, state, view, mounted, gameReplaced, thinkTimers, moveTimers,
                 plies, applied, ev, resets, probe, storage, sessions, pgn, upload>>

\* A handler dispatches its actions, in order.
Handled(dispatched) ==
  /\ Rendered
  /\ queue' = dispatched
  /\ UNCHANGED <<component, state, view, mounted, gameReplaced, thinkTimers, moveTimers,
                 plies, applied, ev, resets, probe, storage, sessions, pgn, upload>>

\* The difficulties picked in the sessions followed.
Picked == {"easy", "hard"}

SetDifficulty(difficulty) ==
  [Dispatch("SET_DIFFICULTY", "human", FALSE) EXCEPT !.value = difficulty]
SetPlayerColor(color) ==
  [Dispatch("SET_PLAYER_COLOR", "human", FALSE) EXCEPT !.value = color]
SetPlayerStyle(style) ==
  [Dispatch("SET_PLAYER_STYLE", "human", FALSE) EXCEPT !.style = style]

\* MobileChessApp, the difficulty buttons, shown while no style is set.
MobileDifficultyChange ==
  /\ component = "MobileChessApp"
  /\ view.playerStyle = NoStyle
  /\ \E d \in Picked : Handled(<<SetDifficulty(d), SetPlayerStyle(NoStyle)>>)

\* MobileChessApp, a style chosen in the upload dialog.
StyleSelected ==
  /\ component = "MobileChessApp"
  /\ Handled(<<SetPlayerStyle(SampleStyle), Dispatch("RESET_GAME", "human", FALSE)>>)

\* MobileChessApp, the button shown while a style is set.
RemoveStyle ==
  /\ component = "MobileChessApp"
  /\ view.playerStyle # NoStyle
  /\ Handled(<<SetPlayerStyle(NoStyle), SetDifficulty("easy")>>)

\* DifficultySelector of GameScreen.
SelectorDifficultyChange ==
  /\ component = "GameScreen"
  /\ \E d \in Picked : Handled(<<SetDifficulty(d)>>)

\* handleSwitchColors of MobileChessApp and of GameControls.
SwitchColors ==
  /\ component \in Screens
  /\ Handled(<<SetPlayerColor(IF view.playerColor = "white" THEN "black" ELSE "white"),
               Dispatch("RESET_GAME", "human", FALSE)>>)

(***************************************************************************)
(* PGN parser: parsePGN                                                    *)
(*                                                                         *)
(* A text is a string, its characters counted from 1.  Each regular        *)
(* expression of the source is an operator that matches as the expression  *)
(* does: leftmost, greedy or lazy as written, without overlap.             *)
(***************************************************************************)

Least(S) == CHOOSE x \in S : \A y \in S : x <= y
Greatest(S) == CHOOSE x \in S : \A y \in S : x >= y

At(text, i) == IF i >= 1 /\ i <= Len(text) THEN SubSeq(text, i, i) ELSE ""
From(text, i) == SubSeq(text, i, Len(text))
StartsAt(text, i, word) ==
  /\ i >= 1
  /\ i + Len(word) - 1 <= Len(text)
  /\ SubSeq(text, i, i + Len(word) - 1) = word
CharsOf(text) == {At(text, i) : i \in 1..Len(text)}

\* The character classes \s, \d and \w.
Whitespace == {" ", "\n", "\t", "\r"}
Digits == CharsOf("0123456789")
WordChars ==
  CharsOf("ABCDEFGHIJKLMNOPQRSTUVWXYZabcdefghijklmnopqrstuvwxyz0123456789_")

\* Where the longest run of characters of the class that starts at i ends
\* (i - 1 when the run is empty), and the same for the characters that are
\* not among the stops.
RECURSIVE RunEnd(_, _, _)
RunEnd(text, i, class) ==
  IF i <= Len(text) /\ At(text, i) \in class THEN RunEnd(text, i + 1, class) ELSE i - 1
RECURSIVE RunUntil(_, _, _)
RunUntil(text, i, stops) ==
  IF i <= Len(text) /\ At(text, i) \notin stops THEN RunUntil(text, i + 1, stops) ELSE i - 1
\* Where the run of characters of the class that ends at i starts.
RECURSIVE RunStart(_, _, _)
RunStart(text, i, class) ==
  IF i >= 1 /\ At(text, i) \in class THEN RunStart(text, i - 1, class) ELSE i + 1

\* String.prototype.trim and String.prototype.includes.
Trim(text) ==
  SubSeq(text, RunEnd(text, 1, Whitespace) + 1, RunStart(text, Len(text), Whitespace) - 1)
Includes(text, word) ==
  word = "" \/ \E i \in 1..Len(text) : StartsAt(text, i, word)

\* pgnText.split(/(?=\[Event)/g): a block starts wherever the six characters
\* "[Event" start, whatever follows them.
RECURSIVE SplitGames(_)
SplitGames(text) ==
  LET cuts == {i \in 2..Len(text) : StartsAt(text, i, "[Event")}
  IN IF cuts = {} THEN <<text>>
     ELSE <<SubSeq(text, 1, Least(cuts) - 1)>> \o SplitGames(From(text, Least(cuts)))

\* A header that is absent (undefined); a value read is never empty.
NoHeader == ""
NoHeaders ==
  [Event |-> NoHeader, Result |-> NoHeader, White |-> NoHeader, Black |-> NoHeader]

\* /\[(\w+)\s+"([^"]+)"\]/ matched at i.
HeaderAt(block, i) ==
  LET keyEnd == RunEnd(block, i + 1, WordChars)
      gapEnd == RunEnd(block, keyEnd + 1, Whitespace)
      valueEnd == RunUntil(block, gapEnd + 2, {"\""})
  IN [matched |-> /\ At(block, i) = "["
                  /\ keyEnd >= i + 1
                  /\ gapEnd >= keyEnd + 1
                  /\ At(block, gapEnd + 1) = "\""
                  /\ valueEnd >= gapEnd + 2
                  /\ At(block, valueEnd + 1) = "\""
                  /\ At(block, valueEnd + 2) = "]",
      key |-> SubSeq(block, i + 1, keyEnd),
      value |-> SubSeq(block, gapEnd + 2, valueEnd),
      end |-> valueEnd + 2]

\* The while loop over headerRegex.exec: a later header of the same name
\* overwrites an earlier one.  Event, Result, White and Black are kept.
RECURSIVE ReadHeaders(_, _, _)
ReadHeaders(block, i, headers) ==
  LET starts == {j \in i..Len(block) : At(block, j) = "[" /\ HeaderAt(block, j).matched}
  IN IF starts = {} THEN headers
     ELSE LET match == HeaderAt(block, Least(starts))
          IN ReadHeaders(block, match.end + 1,
                         IF match.key \in DOMAIN headers
                         THEN [headers EXCEPT ![match.key] = match.value]
                         ELSE headers)

Results == {"1-0", "0-1", "1/2-1/2", "*"}

\* (?:\s*(?:1-0|0-1|1\/2-1\/2|\*))?$ on what follows the moves captured.
IsResultTail(tail) == From(tail, RunEnd(tail, 1, Whitespace) + 1) \in Results

\* block.match(/\]\s*\n\s*(.+?)(?:\s*(?:1-0|0-1|1\/2-1\/2|\*))?$/s): the
\* first "]" followed by white space with a line break in it and something
\* after the break; the moves are all that follows that white space, up to
\* a result that ends the block.  The empty string when nothing matches.
MovesText(block) ==
  LET closes == {i \in 1..Len(block) :
                   /\ At(block, i) = "]"
                   /\ \E j \in (i + 1)..RunEnd(block, i + 1, Whitespace) :
                        At(block, j) = "\n" /\ j < Len(block)}
  IN IF closes = {} THEN ""
     ELSE LET gapEnd == RunEnd(block, Least(closes) + 1, Whitespace)
              first == IF gapEnd < Len(block) THEN gapEnd + 1 ELSE gapEnd
              tails == {e \in first..(Len(block) - 1) : IsResultTail(From(block, e + 1))}
          IN SubSeq(block, first, IF tails = {} THEN Len(block) ELSE Least(tails))

\* Where the match of a cleaning expression of parseMoves that starts at i
\* ends, 0 when it does not match there:
\*   comment     /\{[^}]*\}/       annotation  /\$\d+/      mark  /[!?]+/
\*   number      /\d+\.\s*/        result      /1-0|0-1|1\/2-1\/2|\*/
\*   space       /\s+/
MatchEnd(rule, text, i) ==
  CASE rule = "comment" ->
         IF At(text, i) = "{" /\ RunUntil(text, i + 1, {"}"}) < Len(text)
         THEN RunUntil(text, i + 1, {"}"}) + 1 ELSE 0
    [] rule = "annotation" ->
         IF At(text, i) = "$" /\ At(text, i + 1) \in Digits
         THEN RunEnd(text, i + 1, Digits) ELSE 0
    [] rule = "mark" ->
         IF At(text, i) \in {"!", "?"} THEN RunEnd(text, i, {"!", "?"}) ELSE 0
    [] rule = "number" ->
         IF At(text, i) \in Digits /\ At(text, RunEnd(text, i, Digits) + 1) = "."
         THEN RunEnd(text, RunEnd(text, i, Digits) + 2, Whitespace) ELSE 0
    [] rule = "result" ->
         IF StartsAt(text, i, "1-0") \/ StartsAt(text, i, "0-1") THEN i + 2
         ELSE IF StartsAt(text, i, "1/2-1/2") THEN i + 6
         ELSE IF At(text, i) = "*" THEN i ELSE 0
    [] rule = "space" ->
         IF At(text, i) \in Whitespace THEN RunEnd(text, i, Whitespace) ELSE 0

\* text.replace(rule, with) with the g flag.
RECURSIVE ReplaceAll(_, _, _)
ReplaceAll(rule, with, text) ==
  LET starts == {i \in 1..Len(text) : MatchEnd(rule, text, i) > 0}
  IN IF starts = {} THEN text
     ELSE SubSeq(text, 1, Least(starts) - 1) \o with
          \o ReplaceAll(rule, with, From(text, MatchEnd(rule, text, Least(starts)) + 1))

\* .replace(/$$[^)]*$$/g, " "): "$" is the end of the text, so that the
\* expression matches the empty string there and nowhere else; what the
\* call does is to append a blank.  Parenthesised variations stay.
RemoveVariations(text) == text \o " "

cleanText(movesText) ==
  Trim(ReplaceAll("space", " ",
       ReplaceAll("result", "",
       ReplaceAll("number", " ",
       ReplaceAll("mark", "",
       ReplaceAll("annotation", " ",
       RemoveVariations(ReplaceAll("comment", " ", movesText))))))))

\* cleanText.split(" ")
RECURSIVE SplitTokens(_)
SplitTokens(text) ==
  LET blanks == {i \in 1..Len(text) : At(text, i) = " "}
  IN IF blanks = {} THEN <<text>>
     ELSE <<SubSeq(text, 1, Least(blanks) - 1)>> \o SplitTokens(From(text, Least(blanks) + 1))

PieceLetters == {"K", "Q", "R", "B", "N"}
FileLetters == CharsOf("abcdefgh")
RankDigits == CharsOf("12345678")

\* /^[KQRBN]?[a-h]?[1-8]?x?[a-h][1-8](?:=[QRBN])?[+#]?$/: some choice of
\* the optional parts makes the token fit.
StandardMove(move) ==
  \E piece, file, rank, takes, promotion, mark \in 0..1 :
    LET dest == piece + file + rank + takes + 1
    IN /\ Len(move) = dest + 1 + 2 * promotion + mark
       /\ piece = 1 => At(move, 1) \in PieceLetters
       /\ file = 1 => At(move, piece + 1) \in FileLetters
       /\ rank = 1 => At(move, piece + file + 1) \in RankDigits
       /\ takes = 1 => At(move, dest - 1) = "x"
       /\ At(move, dest) \in FileLetters
       /\ At(move, dest + 1) \in RankDigits
       /\ promotion = 1 => At(move, dest + 2) = "=" /\ At(move, dest + 3) \in {"Q", "R", "B", "N"}
       /\ mark = 1 => At(move, Len(move)) \in {"+", "#"}

isValidMove(move) ==
  IF Len(move) < 2 THEN FALSE
  ELSE IF move = "O-O" \/ move = "O-O-O" THEN TRUE
  ELSE IF Includes(move, "O-O")
       THEN move \in {"O-O+", "O-O#", "O-O-O+", "O-O-O#"}
  ELSE StandardMove(move)

parseMoves(movesText) ==
  IF cleanText(movesText) = "" THEN <<>>
  ELSE SelectSeq(SplitTokens(cleanText(movesText)), isValidMove)

\* parseGameBlock: the sequence of the one game read, empty for null.
parseGameBlock(block) ==
  LET headers == ReadHeaders(block, 1, NoHeaders)
      moves == parseMoves(MovesText(block))
  IN IF moves = <<>> THEN <<>>
     ELSE <<[moves |-> moves,
             result |-> IF headers.Result = NoHeader THEN "*" ELSE headers.Result,
             white |-> IF headers.White = NoHeader THEN "Unknown" ELSE headers.White,
             black |-> IF headers.Black = NoHeader THEN "Unknown" ELSE headers.Black,
             event |-> headers.Event]>>

NotBlank(block) == Trim(block) # ""

\* The loop, were it left at the first block that gives no game.
RECURSIVE PushGamesUntilDropped(_)
PushGamesUntilDropped(gameBlocks) ==
  IF gameBlocks = <<>> THEN <<>>
  ELSE LET game == parseGameBlock(Head(gameBlocks))
       IN IF game # <<>> /\ Len(game[1].moves) > 5
          THEN game \o PushGamesUntilDropped(Tail(gameBlocks))
          ELSE <<>>

\* The loop of parsePGN over the blocks.  Nothing parseGameBlock does can
\* throw, so that the catch clause is never entered.
RECURSIVE PushGames(_)
PushGames(gameBlocks) ==
  IF gameBlocks = <<>> THEN <<>>
  ELSE LET game == parseGameBlock(Head(gameBlocks))
       IN (IF game # <<>> /\ Len(game[1].moves) > 5 THEN game ELSE <<>>)
          \o PushGames(Tail(gameBlocks))

parsePGN(pgnText) == PushGames(SelectSeq(SplitGames(pgnText), NotBlank))

(***************************************************************************)
(* Numbers of the style analysis: IEEE 754 double precision                *)
(*                                                                         *)
(* A double is the 53 bits of its significand, the leading one first, and  *)
(* the exponent of that leading bit; every operation is the exact result   *)
(* rounded to nearest, ties to even.  The operands of the analysis are     *)
(* counts below 2^12, so that no result is subnormal or overflows.         *)
(***************************************************************************)
Significand == 53
CountBits == 12
QuotientBits == 66
Zero == [bits |-> <<>>, exp |-> 0]

\* The bits, the first of weight 2^exp, rounded to a double; inexact tells
\* that the exact value has more bits, not all zero, after those given.
RoundToDouble(bits, exp, inexact) ==
  LET ones == {i \in 1..Len(bits) : bits[i] = 1}
  IN IF ones = {} THEN Zero
     ELSE LET lead == Least(ones)
              bit(i) == IF lead + i - 1 <= Len(bits) THEN bits[lead + i - 1] ELSE 0
              kept == [i \in 1..Significand |-> bit(i)]
              more == inexact \/ \E i \in (lead + Significand + 1)..Len(bits) : bits[i] = 1
              up == bit(Significand + 1) = 1 /\ (more \/ bit(Significand) = 1)
              zeros == {i \in 1..Significand : kept[i] = 0}
          IN IF ~up THEN [bits |-> kept, exp |-> exp - lead + 1]
             ELSE IF zeros = {}
                  THEN [bits |-> [i \in 1..Significand |-> IF i = 1 THEN 1 ELSE 0],
                        exp |-> exp - lead + 2]
             ELSE [bits |-> [i \in 1..Significand |->
                               IF i < Greatest(zeros) THEN kept[i]
                               ELSE IF i = Greatest(zeros) THEN 1 ELSE 0],
                   exp |-> exp - lead + 1]

Pow2(n) == IF n = 0 THEN 1 ELSE 2 ^ n

\* a / b of two counts, b > 0: long division.
Divide(a, b) ==
  LET rest[k \in 0..QuotientBits] == IF k = 0 THEN a % b ELSE (2 * rest[k - 1]) % b
      bits == [i \in 1..(CountBits + QuotientBits) |->
                 IF i <= CountBits THEN ((a \div b) \div Pow2(CountBits - i)) % 2
                 ELSE (2 * rest[i - CountBits - 1]) \div b]
  IN RoundToDouble(bits, CountBits - 1, rest[QuotientBits] # 0)

\* The bit of weight 2^w of a double.
BitAt(x, w) ==
  IF x = Zero \/ w > x.exp \/ w < x.exp - Significand + 1 THEN 0
  ELSE x.bits[x.exp - w + 1]

\* x + y
Plus(x, y) ==
  IF x = Zero THEN y
  ELSE IF y = Zero THEN x
  ELSE LET top == MaxOf(x.exp, y.exp) + 1
           low == (IF x.exp < y.exp THEN x.exp ELSE y.exp) - Significand + 1
           carry[w \in low..(top + 1)] ==
             IF w = low THEN 0
             ELSE (BitAt(x, w - 1) + BitAt(y, w - 1) + carry[w - 1]) \div 2
       IN RoundToDouble([i \in 1..(top - low + 1) |->
                           (BitAt(x, top - i + 1) + BitAt(y, top - i + 1)
                            + carry[top - i + 1]) % 2],
                        top, FALSE)

\* x * n for a count n below 2^7 (8 and 100 in the source).
Times(x, n) ==
  IF x = Zero THEN Zero
  ELSE LET top == x.exp + 7
           low == x.exp - Significand + 1
           carry[w \in low..(top + 1)] ==
             IF w = low THEN 0 ELSE (BitAt(x, w - 1) * n + carry[w - 1]) \div 2
       IN RoundToDouble([i \in 1..(top - low + 1) |->
                           (BitAt(x, top - i + 1) * n + carry[top - i + 1]) % 2],
                        top, FALSE)

\* Math.round of a double that is not negative: the integer part, and one
\* more when the bit of weight 1/2 is set.
RECURSIVE Whole(_, _)
Whole(x, w) == IF w > x.exp \/ x = Zero THEN 0 ELSE BitAt(x, w) * Pow2(w) + Whole(x, w + 1)
MathRound(x) == Whole(x, 0) + BitAt(x, -1)

(***************************************************************************)
(* PGN parser: analyzePlayerStyle                                          *)
(***************************************************************************)
UpperCase == "ABCDEFGHIJKLMNOPQRSTUVWXYZ"
LowerCase == "abcdefghijklmnopqrstuvwxyz"

RECURSIVE toLowerCase(_)
toLowerCase(text) ==
  IF text = "" THEN ""
  ELSE LET capital == {i \in 1..Len(UpperCase) : At(UpperCase, i) = At(text, 1)}
       IN (IF capital = {} THEN At(text, 1) ELSE At(LowerCase, Least(capital)))
          \o toLowerCase(From(text, 2))

\* The filter of analyzePlayerStyle, and its isWhite.
PlayedBy(game, playerName) ==
  \/ Includes(toLowerCase(game.white), toLowerCase(playerName))
  \/ Includes(toLowerCase(game.black), toLowerCase(playerName))
isWhite(game, playerName) ==
  Includes(toLowerCase(game.white), toLowerCase(playerName))

\* The plies analysed and the plies that count for the endgame.
AnalysisWindow == 80
EndgameWindow == 20

\* The indices, from 0, of the moves the inner loop does not skip.
PlayerMoves(moves, white) ==
  {i \in 0..((IF Len(moves) < AnalysisWindow THEN Len(moves) ELSE AnalysisWindow) - 1) :
     \/ i % 2 = 0 /\ white
     \/ i % 2 = 1 /\ ~white}

\* Whether the move at index i of a game of the given length adds one to
\* the counter.
Counts(counter, move, i, length) ==
  LET firstChar == At(move, 1)
      pawn == firstChar \notin {"Q", "R", "B", "N", "K"}
  IN CASE counter = "queenMoves" -> firstChar = "Q"
       [] counter = "rookMoves" -> firstChar = "R"
       [] counter = "bishopMoves" -> firstChar = "B"
       [] counter = "knightMoves" -> firstChar = "N"
       [] counter = "pawnMoves" -> pawn
       [] counter = "kingActivity" ->
            firstChar = "K" /\ ~Includes(move, "O") /\ i >= length - EndgameWindow
       [] counter = "pawnPushes" -> pawn /\ i >= length - EndgameWindow
       [] counter = "captures" -> Includes(move, "x")
       [] counter = "pieceExchanges" -> Includes(move, "x") /\ i >= length - EndgameWindow
       [] counter = "checks" -> Includes(move, "+") \/ Includes(move, "#")
       [] counter = "castling" -> Includes(move, "O-O")
       [] counter = "promotions" -> Includes(move, "=")

\* The counter after the loop over the games.
RECURSIVE Tally(_, _, _)
Tally(counter, playerGames, playerName) ==
  IF playerGames = <<>> THEN 0
  ELSE LET game == Head(playerGames)
           white == isWhite(game, playerName)
       IN Cardinality({i \in PlayerMoves(game.moves, white) :
                         Counts(counter, game.moves[i + 1], i, Len(game.moves))})
          + Tally(counter, Tail(playerGames), playerName)

\* The sum, were only the moves of the analysis window counted.
RECURSIVE totalMovesInWindow(_)
totalMovesInWindow(playerGames) ==
  IF playerGames = <<>> THEN 0
  ELSE (IF Len(Head(playerGames).moves) < AnalysisWindow
        THEN Len(Head(playerGames).moves) ELSE AnalysisWindow)
       + totalMovesInWindow(Tail(playerGames))

RECURSIVE totalMoves(_)
totalMoves(playerGames) ==
  IF playerGames = <<>> THEN 0
  ELSE Len(Head(playerGames).moves) + totalMoves(Tail(playerGames))

Clamp(n) == IF n > 100 THEN 100 ELSE IF n < 0 THEN 0 ELSE n

\* analyzePlayerStyle: thrown tells that it threw "No games found for
\* player"; the style is the one returned otherwise.  (openingPreferences,
\* a table of the first six moves of each game, is left out.)
analyzePlayerStyle(games, playerName) ==
  LET plays(game) == PlayedBy(game, playerName)
      playerGames == SelectSeq(games, plays)
      count(counter) == Tally(counter, playerGames, playerName)
      pieceActivity == [queenMoves |-> count("queenMoves"), rookMoves |-> count("rookMoves"),
                        bishopMoves |-> count("bishopMoves"), knightMoves |-> count("knightMoves"),
                        pawnMoves |-> count("pawnMoves")]
      tacticalPatterns == [captures |-> count("captures"), checks |-> count("checks"),
                           castling |-> count("castling"), promotions |-> count("promotions")]
      capturesPerGame == Divide(tacticalPatterns.captures, Len(playerGames))
      checksPerGame == Divide(tacticalPatterns.checks, Len(playerGames))
      totalPieceMoves == pieceActivity.queenMoves + pieceActivity.rookMoves
                         + pieceActivity.bishopMoves + pieceActivity.knightMoves
                         + pieceActivity.pawnMoves
      minorPieceMoves == pieceActivity.bishopMoves + pieceActivity.knightMoves
  IN IF playerGames = <<>> THEN [thrown |-> TRUE]
     ELSE [thrown |-> FALSE,
           name |-> playerName,
           totalGames |-> Len(playerGames),
           averageGameLength |-> MathRound(Divide(totalMoves(playerGames), Len(playerGames))),
           pieceActivity |-> pieceActivity,
           tacticalPatterns |-> tacticalPatterns,
           endgameStyle |-> [kingActivity |-> count("kingActivity"),
                             pawnPushes |-> count("pawnPushes"),
                             pieceExchanges |-> count("pieceExchanges")],
           aggressiveness |-> Clamp(MathRound(Times(Plus(capturesPerGame, checksPerGame), 8))),
           positionalVsTactical |->
             IF totalPieceMoves > 0
             THEN MathRound(Times(Divide(minorPieceMoves, totalPieceMoves), 100))
             ELSE 50]

(***************************************************************************)
(* PGN texts, parsed and analysed                                          *)
(***************************************************************************)
\* The move text of a game of each kind.  The kinds "line" and "noted" are
\* games of six and seven plies; "short" is a game of three plies; "bare"
\* is a game without moves; "glued" has its moves on the line of its only
\* header; "varied" is the game "line" with a comment and a variation that
\* name other moves.
MoveText(kind) ==
  CASE kind = "line" -> "1. e4 e5 2. Nf3 Nc6 3. Bb5 a6 "
    [] kind = "noted" -> "1. d4 {Queen's pawn} d5 2. c4! dxc4 $1 3. e4 e5?! 4. Nf3 "
    [] kind = "short" -> "1. e4 c5 2. Nf3 "
    [] kind = "bare" -> ""
    [] kind = "glued" -> "1. e4 e5 2. Nf3 Nc6 3. Bb5 a6 "
    [] kind = "varied" ->
         "1. e4 e5 {or c5 at once} 2. Nf3 (2. f4 exf4 3. Bc4) 2... Nc6 3. Bb5 a6 "

Tag(name, value) == "[" \o name \o " \"" \o value \o "\"]"

\* The text of a game: its tag pairs, a line each, an empty line, the move
\* text and the result.  A dated game has an EventDate tag after its Result
\* tag.
GameText(game) ==
  IF game.kind = "glued"
  THEN Tag("Event", game.event) \o " " \o MoveText(game.kind) \o game.result \o "\n\n"
  ELSE Tag("Event", game.event) \o "\n"
       \o Tag("Site", "Wijk aan Zee NED") \o "\n"
       \o Tag("White", game.white) \o "\n"
       \o Tag("Black", game.black) \o "\n"
       \o Tag("Result", game.result) \o "\n"
       \o (IF game.dated THEN Tag("EventDate", "2013.01.11") \o "\n" ELSE "")
       \o "\n" \o MoveText(game.kind) \o game.result \o "\n\n"

RECURSIVE WriteText(_)
WriteText(written) ==
  IF written = <<>> THEN "" ELSE GameText(Head(written)) \o WriteText(Tail(written))

\* A game of more than five moves, written as the PGN standard has it.
WellFormed(game) == game.kind \in {"line", "noted", "varied"}

\* The games written into the texts read.
Pairings ==
  {[white |-> "Carlsen, Magnus", black |-> "Anand", result |-> "1-0"],
   [white |-> "Anand", black |-> "Carlsen, Magnus", result |-> "1/2-1/2"],
   [white |-> "Caruana", black |-> "Anand", result |-> "0-1"]}
WrittenGames ==
  {[event |-> "Tata Steel", white |-> pairing.white, black |-> pairing.black,
    result |-> pairing.result, dated |-> dated, kind |-> kind] :
     pairing \in Pairings, dated \in BOOLEAN,
     kind \in {"line", "noted", "varied", "short", "bare", "glued"}}

\* The games that follow a first game in a text: the games its Black player
\* has White in, dated as it is.
ReturnGames(first) ==
  {game \in WrittenGames : game.white = first.black /\ game.dated = first.dated}

\* Texts without any header.
PlainTexts == {"", " \n", "1. e4 e5 2. Nf3 Nc6 3. Bb5 a6 4. Ba4 Nf6 1-0\n"}

\* Bound of the games analysed without a text: the full moves of a long
\* game, more than the analysis window holds.
LongGameMoves == 42

\* A long game as parsePGN returns one.  White moves a knight in the first
\* knights of the full moves and a rook in the others, Black moves a knight,
\* and takes with it in the last takes of the full moves.
LongGame(pairing, knights, takes) ==
  [moves |-> [i \in 1..(2 * LongGameMoves) |->
                IF i % 2 = 0
                THEN (IF i \div 2 > LongGameMoves - takes THEN "Nxf3+"
                      ELSE IF i % 4 = 0 THEN "Ng8" ELSE "Nf6")
                ELSE IF (i + 1) \div 2 <= knights
                     THEN (IF i % 4 = 1 THEN "Nf3" ELSE "Ng1")
                     ELSE (IF i % 4 = 1 THEN "Rg1" ELSE "Rh1")],
   result |-> pairing.result, white |-> pairing.white, black |-> pairing.black,
   event |-> "Tata Steel"]
LongGames ==
  {LongGame(pairing, knights, takes) :
     pairing \in Pairings, knights \in {20, 23}, takes \in {0, 3}}

\* A game as parsePGN returns one in which both sides castle and White
\* moves the king afterwards.
CastledGame(pairing) ==
  [moves |-> <<"e4", "e5", "Nf3", "Nc6", "Bc4", "Bc5", "O-O", "Nf6", "Kh1", "O-O", "Qe2", "d6">>,
   result |-> pairing.result, white |-> pairing.white, black |-> pairing.black,
   event |-> "Tata Steel"]

\* The names asked for.
PlayerNames == {"carlsen", "Anand", "Kasparov"}

\* What PGNUpload holds: the games written into the text, the text, whether
\* parsePGN has read it, the games at hand, and the answer of
\* analyzePlayerStyle to the name asked for.
NoUpload ==
  [written |-> <<>>, text |-> "", parsed |-> FALSE, ready |-> FALSE, games |-> <<>>,
   playerName |-> "", analysed |-> FALSE, style |-> [thrown |-> FALSE]]
Upload(written, text) == [NoUpload EXCEPT !.written = written, !.text = text]
Parsed(games) == [NoUpload EXCEPT !.ready = TRUE, !.games = games]

\* The texts read: without a header, of one game, and of a game and the
\* next game of its Black player.
Uploads ==
  {Upload(<<>>, text) : text \in PlainTexts}
  \cup {Upload(<<game>>, WriteText(<<game>>)) : game \in WrittenGames}
  \cup UNION {{Upload(<<first, second>>, WriteText(<<first, second>>)) :
                 second \in ReturnGames(first)} : first \in WrittenGames}

\* The games analysed without a text: a long game, alone or followed by a
\* game as long that its Black player has White in, and a game with
\* castling.
GamesAtHand ==
  {Parsed(<<game>>) : game \in LongGames}
  \cup {Parsed(<<CastledGame(pairing)>>) : pairing \in Pairings}
  \cup {Parsed(<<first, LongGame(CHOOSE pairing \in Pairings : pairing.white = first.black,
                                  20, 0)>>) : first \in LongGames}

(***************************************************************************)
(* PGNUpload: handleFile                                                   *)
(***************************************************************************)
\* Times are in milliseconds.  handleFile runs on the one thread of the
\* page: a step of it runs to its next await, promise reactions run before
\* any timer, and a timer runs when nothing else does.
ParsingTimeout == 10000
AnalysisDelay == 50
SizeLimit == 10 * 1024 * 1024

EndsWith(text, word) ==
  /\ Len(text) >= Len(word)
  /\ SubSeq(text, Len(text) - Len(word) + 1, Len(text)) = word

\* What PGNUpload holds of a call of handleFile: where the call is, the file,
\* the clock, the pending timers, the two promises raced and the outcome of
\* the race, the locals of the call, and the component's state.
NoFile == [name |-> "", size |-> 0, text |-> "", took |-> 0]
NoCall ==
  [at |-> "idle", file |-> NoFile, clock |-> 0, timers |-> {},
   parsePromise |-> "pending", parsed |-> <<>>, timeoutPromise |-> "pending",
   race |-> "none", games |-> <<>>, playersToAnalyze |-> <<>>, i |-> 0, styles |-> <<>>,
   processing |-> FALSE, error |-> "", progress |-> "", playerStyles |-> <<>>]

\* The finally clause, and a setError followed by return inside the try.
Finally(call) == [call EXCEPT !.processing = FALSE, !.at = "returned"]
Fail(call, message) == Finally([call EXCEPT !.error = message])

\* playerCounts: a Map, its entries in the order of their first set.
Counted(playerCounts, name) ==
  IF name = "Unknown" THEN playerCounts
  ELSE IF \E k \in 1..Len(playerCounts) : playerCounts[k].name = name
       THEN [k \in 1..Len(playerCounts) |->
               IF playerCounts[k].name = name
               THEN [playerCounts[k] EXCEPT !.count = @ + 1] ELSE playerCounts[k]]
       ELSE Append(playerCounts, [name |-> name, count |-> 1])

RECURSIVE CountPlayers(_, _)
CountPlayers(games, playerCounts) ==
  IF games = <<>> THEN playerCounts
  ELSE CountPlayers(Tail(games),
                    Counted(Counted(playerCounts, Head(games).white), Head(games).black))

\* Array.prototype.sort with (a, b) => b - a on the counts: stable.
SortByCount(entries) ==
  LET Rank(k) == 1 + Cardinality({j \in 1..Len(entries) :
                        \/ entries[j].count > entries[k].count
                        \/ entries[j].count = entries[k].count /\ j < k})
  IN [r \in 1..Len(entries) |-> entries[CHOOSE k \in 1..Len(entries) : Rank(k) = r]]

\* The players with three games or more, the ten with the most games.
playersToAnalyze(games) ==
  LET enough == SelectSeq(CountPlayers(games, <<>>), LAMBDA entry : entry.count >= 3)
      sorted == SortByCount(enough)
  IN [k \in 1..(IF Len(sorted) < 10 THEN Len(sorted) ELSE 10) |-> sorted[k].name]

\* The body of the loop over playersToAnalyze, to its await.
Iterate(call) ==
  LET playerName == call.playersToAnalyze[call.i]
      style == analyzePlayerStyle(call.games, playerName)
  IN [call EXCEPT
        !.progress = "Analyzing " \o playerName \o "... (" \o ToString(call.i) \o "/"
                     \o ToString(Len(call.playersToAnalyze)) \o ")",
        !.styles = IF style.thrown THEN @ ELSE Append(@, style),
        !.timers = @ \cup {[fires |-> "delay", at |-> call.clock + AnalysisDelay]},
        !.at = "waiting"]

\* The timer that runs next: the one due first.
NextTimer(call) == CHOOSE timer \in call.timers : \A other \in call.timers : timer.at <= other.at
Reacting(call) == call.at = "reading" \/ (call.at = "racing" /\ call.race \notin {"none", "pending"})

\* The files handed over.  The text of the large file is never read.
Written(white, black, result, kind) ==
  [event |-> "Tata Steel", white |-> white, black |-> black, result |-> result,
   dated |-> FALSE, kind |-> kind]
FileGames ==
  <<Written("Carlsen, Magnus", "Anand", "1-0", "line"),
    Written("Anand", "Carlsen, Magnus", "1/2-1/2", "noted"),
    Written("Caruana", "Anand", "0-1", "line"),
    Written("Carlsen, Magnus", "Anand", "1/2-1/2", "noted")>>
FileTexts ==
  {"", " \n", WriteText(SubSeq(FileGames, 1, 1)),
   GameText(Written("Caruana", "Anand", "0-1", "glued")),
   WriteText(SubSeq(FileGames, 1, 3)), WriteText(FileGames)}
\* The time parsePGN takes on the text, on the machine it runs on.
ParseTimes == {40, 9000, 15000}
Files ==
  {[name |-> name, size |-> Len(text), text |-> text, took |-> took] :
     name \in {"games.pgn", "Games.PGN", "games.txt"}, text \in FileTexts, took \in ParseTimes}
  \cup {[name |-> "archive.pgn", size |-> 11 * 1024 * 1024, text |-> "", took |-> 0]}

(***************************************************************************)
(* A game from the starting position                                       *)
(***************************************************************************)
\* The settings a game is played with: the difficulty, and a style profile
\* exactly with difficulty "style".
Settings ==
  {[difficulty |-> d, playerStyle |-> NoStyle] : d \in {"easy", "medium", "hard"}}
  \cup {[difficulty |-> "style", playerStyle |-> SampleStyle]}

Configured(s, setting, color) ==
  [s EXCEPT !.difficulty = setting.difficulty, !.playerStyle = setting.playerStyle,
            !.playerColor = color]

\* No question put to the engine yet about game.
NoAnswer ==
  [from |-> NoSquare, to |-> NoSquare, piece |-> NoPiece, color |-> "w",
   captured |-> NoPiece, promotion |-> NoPiece, flags |-> "n", suffix |-> "", san |-> ""]
Unasked(game) ==
  [game |-> game, personality |-> "none", playerStyle |-> NoStyle,
   asked |-> FALSE, null |-> FALSE, answer |-> NoAnswer]
NoProbe == Unasked(NewChess(StartPos))

InitBoard ==
  /\ queue = <<>>
  /\ view = state
  /\ mounted = FALSE
  /\ gameReplaced = FALSE
  /\ thinkTimers = {}
  /\ moveTimers = {}
  /\ plies = 0
  /\ applied = [fen |-> state.fen, moveHistory |-> state.moveHistory, latest |-> FALSE]
  /\ ev = [type |-> "none", ok |-> FALSE, by |-> "none", stale |-> FALSE]
  /\ resets = 0
  /\ storage = NoSnapshot
  /\ sessions = 0

InitRest == InitBoard /\ probe = NoProbe /\ pgn = NoUpload /\ upload = NoCall

\* The games of Spec: the board, the difficulty and the player's side.
Games ==
  {[component |-> "MobileChessboard", difficulty |-> "medium", color |-> "white"],
   [component |-> "Chessboard", difficulty |-> "hard", color |-> "white"],
   [component |-> "Chessboard", difficulty |-> "hard", color |-> "black"]}

\* A new game, with the settings and the side chosen.
Init ==
  /\ \E g \in Games, setting \in Settings :
       /\ setting.difficulty = g.difficulty
       /\ component = g.component
       /\ state = Configured(initialState, setting, g.color)
  /\ InitRest

Next ==
  \/ Reduce
  \/ Render
  \/ MobileThinkTimeout
  \/ MobileMoveTimeout
  \/ MobileSquareClick
  \/ ChessboardThinkTimeout
  \/ ChessboardMoveTimeout
  \/ ChessboardSquareClick
  \/ Restart
  \/ UndoClick

Spec == Init /\ [][Next]_vars

(***************************************************************************)
(* Games that have reached an ending                                       *)
(***************************************************************************)
Placed(pieces) ==
  [s \in Squares |->
     IF \E p \in pieces : p[1] = s THEN (CHOOSE p \in pieces : p[1] = s)[2] ELSE Empty]

Position(pieces, turn, half) ==
  [board |-> Placed(pieces), turn |-> turn, castling |-> {}, ep |-> 0,
   half |-> half, full |-> 60]

\* Each ending: the position before the last move, that move, and the
\* player's side.  After ...Kh5 White mates with Qg5, stalemates with Qf6,
\* and any other queen move is the hundredth half-move when 98 were counted.
QueenEnding(half) ==
  [pos |-> Position({<<Sq(6, 5), "wk">>, <<Sq(5, 7), "wq">>, <<Sq(8, 6), "bk">>}, "b", half),
   from |-> Sq(8, 6), to |-> Sq(8, 5), color |-> "white"]
\* After ...Ka8 White takes the last pawn: king against king.
PawnEnding ==
  [pos |-> Position({<<Sq(5, 4), "wk">>, <<Sq(5, 5), "bp">>, <<Sq(2, 8), "bk">>}, "b", 0),
   from |-> Sq(2, 8), to |-> Sq(1, 8), color |-> "white"]
\* After ...Kh8 the computer, White, mates by promoting on e8.
PromotionEnding ==
  [pos |-> Position({<<Sq(7, 6), "wk">>, <<Sq(5, 7), "wp">>, <<Sq(7, 8), "bk">>}, "b", 0),
   from |-> Sq(7, 8), to |-> Sq(8, 8), color |-> "black"]

Endings == {QueenEnding(0), QueenEnding(98), PawnEnding, PromotionEnding}

\* The state of a game with the given setting whose last move was the
\* ending's.
Reached(e, setting) ==
  ReduceMakeMove([Configured(initialState, setting, e.color) EXCEPT
                    !.game = NewChess(e.pos), !.fen = e.pos,
                    !.currentTurn = ColorName(e.pos.turn)],
                 [from |-> e.from, to |-> e.to, promotion |-> NoPiece])

InitEndgame ==
  /\ component \in {"MobileChessboard", "Chessboard"}
  /\ \E e \in Endings :
       state = Reached(e, [difficulty |-> "medium", playerStyle |-> NoStyle])
  /\ InitRest

NextEndgame ==
  \/ Reduce
  \/ Render
  \/ MobileThinkTimeout
  \/ MobileMoveTimeout
  \/ MobileSquareClick
  \/ ChessboardThinkTimeout
  \/ ChessboardMoveTimeout
  \/ ChessboardSquareClick
  \/ UndoClick

SpecEndgame == InitEndgame /\ [][NextEndgame]_vars

(***************************************************************************)
(* The mobile board with every pending step eventually taken               *)
(***************************************************************************)
InitFair ==
  /\ component = "MobileChessboard"
  /\ state = Configured(initialState, [difficulty |-> "medium", playerStyle |-> NoStyle],
                        "white")
  /\ InitRest

NextFair ==
  \/ Reduce
  \/ Render
  \/ MobileThinkTimeout
  \/ MobileMoveTimeout
  \/ MobileSquareClick

\* Weak fairness of Reduce and of MobileThinkTimeout, with their enabling
\* conditions written out: Reduce can be taken exactly when an action is
\* queued, MobileThinkTimeout exactly when the queue is empty and a thinking
\* timeout is pending.
ReduceFair == []<>(queue = <<>>) \/ []<><<Reduce>>_vars
ThinkTimeoutFair ==
  \/ []<>(~(component = "MobileChessboard" /\ queue = <<>> /\ thinkTimers # {}))
  \/ []<><<MobileThinkTimeout>>_vars

\* A dispatched action is reduced, a changed state is rendered, and a
\* timeout that stays pending fires.
Fairness ==
  /\ ReduceFair
  /\ WF_vars(Render)
  /\ ThinkTimeoutFair
  /\ WF_vars(MobileMoveTimeout)

SpecFair == InitFair /\ [][NextFair]_vars /\ Fairness

(***************************************************************************)
(* The engine asked directly                                               *)
(***************************************************************************)
MaxProbePly == 1

Configs ==
  {[personality |-> p, playerStyle |-> NoStyle] :
     p \in {"defensive-tactical", "balanced", "aggressive", "positional", "style-based"}}
  \cup {[personality |-> "style-based", playerStyle |-> SampleStyle]}

\* The games the engine is asked about: the start, positions with no legal
\* move (mate, stalemate), with one legal move, and with a mate to give.
ProbeGames ==
  {NewChess(StartPos),
   NewChess(Position({<<Sq(6, 5), "wk">>, <<Sq(7, 5), "wq">>, <<Sq(8, 5), "bk">>}, "b", 0)),
   NewChess(Position({<<Sq(6, 5), "wk">>, <<Sq(6, 6), "wq">>, <<Sq(8, 5), "bk">>}, "b", 0)),
   NewChess(PromotionEnding.pos),
   Move(NewChess(PromotionEnding.pos), PromotionEnding.from, PromotionEnding.to, NoPiece)}

InitAI ==
  /\ component = "MobileChessboard"
  /\ state = initialState
  /\ InitBoard
  /\ pgn = NoUpload
  /\ upload = NoCall
  /\ \E game \in ProbeGames : probe = Unasked(game)

\* The answer of getAIMove recorded: null, or one of the moves it can return.
Answered(config, selected) ==
  IF selected = {}
  THEN probe' = [probe EXCEPT !.personality = config.personality,
                              !.playerStyle = config.playerStyle,
                              !.asked = TRUE, !.null = TRUE]
  ELSE \E m \in selected :
         probe' = [probe EXCEPT !.personality = config.personality,
                                !.playerStyle = config.playerStyle,
                                !.asked = TRUE, !.answer = m]

AskEngine ==
  /\ ~probe.asked
  /\ \E config \in Configs : Answered(config, getAIMove(probe.game, config))
  /\ UNCHANGED <<component, state, queue, view, mounted, gameReplaced, thinkTimers,
                 moveTimers, plies, applied, ev, resets, storage, sessions, pgn, upload>>

\* The answer is played on the game, which is then asked about again.
PlayAnswer ==
  /\ probe.asked
  /\ ~probe.null
  /\ Len(probe.game.history) < MaxProbePly
  /\ probe' = Unasked(Made(probe.game, probe.answer))
  /\ UNCHANGED <<component, state, queue, view, mounted, gameReplaced, thinkTimers,
                 moveTimers, plies, applied, ev, resets, storage, sessions, pgn, upload>>

NextAI ==
  \/ AskEngine
  \/ PlayAnswer

SpecAI == InitAI /\ [][NextAI]_vars

(***************************************************************************)
(* Sessions of the provider: settings, moves, and the page loaded again    *)
(***************************************************************************)
InitProvider ==
  /\ component \in Screens
  /\ state = initialState
  /\ InitRest

NextProvider ==
  \/ ProviderMount
  \/ Reduce
  \/ ProviderRender
  \/ BoardMove
  \/ MobileDifficultyChange
  \/ StyleSelected
  \/ RemoveStyle
  \/ SelectorDifficultyChange
  \/ SwitchColors
  \/ Restart
  \/ UndoClick
  \/ Reload

SpecProvider == InitProvider /\ [][NextProvider]_vars

(***************************************************************************)
(* A PGN text parsed, and a player's style drawn from its games            *)
(***************************************************************************)
InitPGN ==
  /\ component = "MobileChessApp"
  /\ state = initialState
  /\ InitBoard
  /\ probe = NoProbe
  /\ pgn \in Uploads \cup GamesAtHand
  /\ upload = NoCall

\* parsePGN applied to the text.
ParsePGN ==
  /\ ~pgn.ready
  /\ pgn' = [pgn EXCEPT !.parsed = TRUE, !.ready = TRUE, !.games = parsePGN(pgn.text)]
  /\ UNCHANGED <<component, state, queue, view, mounted, gameReplaced, thinkTimers,
                 moveTimers, plies, applied, ev, resets, probe, storage, sessions, upload>>

\* analyzePlayerStyle applied to the games parsed and a name.
AnalyzePlayerStyle ==
  /\ pgn.ready
  /\ ~pgn.analysed
  /\ \E playerName \in PlayerNames :
       pgn' = [pgn EXCEPT !.playerName = playerName, !.analysed = TRUE,
                          !.style = analyzePlayerStyle(pgn.games, playerName)]
  /\ UNCHANGED <<component, state, queue, view, mounted, gameReplaced, thinkTimers,
                 moveTimers, plies, applied, ev, resets, probe, storage, sessions, upload>>

NextPGN ==
  \/ ParsePGN
  \/ AnalyzePlayerStyle

SpecPGN == InitPGN /\ [][NextPGN]_vars

(***************************************************************************)
(* A file handed to PGNUpload                                              *)
(***************************************************************************)
InitUpload ==
  /\ component = "MobileChessApp"
  /\ state = initialState
  /\ InitRest

\* handleFile called, to its first await.
HandleFile ==
  /\ upload.at = "idle"
  /\ \E file \in Files :
       upload' =
         IF ~EndsWith(toLowerCase(file.name), ".pgn")
         THEN [upload EXCEPT !.file = file, !.error = "Please upload a .pgn file",
                             !.at = "returned"]
         ELSE IF file.size > SizeLimit
         THEN [upload EXCEPT !.file = file, !.at = "returned",
                 !.error = "File too large. Please upload a file smaller than 10MB"]
         ELSE [upload EXCEPT !.file = file, !.processing = TRUE, !.error = "",
                             !.progress = "Reading file...", !.at = "reading"]
  /\ UNCHANGED <<component, state, queue, view, mounted, gameReplaced, thinkTimers,
                 moveTimers, plies, applied, ev, resets, probe, storage, sessions, pgn>>

\* The text read: parsePGN runs in the executor of parsePromise, the timer of
\* timeoutPromise is set, and the call awaits the race of the two.
TextRead ==
  /\ upload.at = "reading"
  /\ upload' =
       IF Trim(upload.file.text) = "" THEN Fail(upload, "File appears to be empty")
       ELSE LET now == upload.clock + upload.file.took
            IN [upload EXCEPT !.progress = "Parsing games...",
                              !.parsed = parsePGN(upload.file.text),
                              !.parsePromise = "fulfilled",
                              !.clock = now,
                              !.timers = {[fires |-> "timeout", at |-> now + ParsingTimeout]},
                              !.race = "parse",
                              !.at = "racing"]
  /\ UNCHANGED <<component, state, queue, view, mounted, gameReplaced, thinkTimers,
                 moveTimers, plies, applied, ev, resets, probe, storage, sessions, pgn>>

\* The race settled: the call goes on with the games, to the await in its
\* loop, or its catch clause shows the error.
RaceSettled ==
  /\ upload.at = "racing"
  /\ upload.race \in {"parse", "timeout"}
  /\ upload' =
       IF upload.race = "timeout" THEN Fail(upload, "Parsing timeout")
       ELSE IF Len(upload.parsed) = 0
       THEN Fail([upload EXCEPT !.games = upload.parsed],
                 "No valid games found in the PGN file")
       ELSE LET players == playersToAnalyze(upload.parsed)
                going == [upload EXCEPT
                            !.games = upload.parsed,
                            !.progress = "Analyzing " \o ToString(Len(upload.parsed))
                                         \o " games...",
                            !.playersToAnalyze = players]
            IN IF Len(players) = 0
               THEN Fail(going,
                      "No players found with enough games for analysis (minimum 3 games)")
               ELSE Iterate([going EXCEPT !.i = 1])
  /\ UNCHANGED <<component, state, queue, view, mounted, gameReplaced, thinkTimers,
                 moveTimers, plies, applied, ev, resets, probe, storage, sessions, pgn>>

\* The delay of the loop over: the next player, or the styles shown.
DelayElapsed ==
  /\ upload.at = "waiting"
  /\ NextTimer(upload).fires = "delay"
  /\ LET woken == [upload EXCEPT !.clock = NextTimer(upload).at,
                                 !.timers = @ \ {NextTimer(upload)}]
     IN upload' =
          IF upload.i < Len(upload.playersToAnalyze)
          THEN Iterate([woken EXCEPT !.i = @ + 1])
          ELSE IF Len(upload.styles) = 0
          THEN Fail(woken, "Failed to analyze any player styles")
          ELSE Finally([woken EXCEPT !.playerStyles = upload.styles, !.progress = ""])
  /\ UNCHANGED <<component, state, queue, view, mounted, gameReplaced, thinkTimers,
                 moveTimers, plies, applied, ev, resets, probe, storage, sessions, pgn>>

\* The timer of timeoutPromise runs: the promise is rejected, and the race
\* with it when the race is not settled.
TimeoutElapsed ==
  /\ upload.timers # {}
  /\ ~Reacting(upload)
  /\ NextTimer(upload).fires = "timeout"
  /\ upload' = [upload EXCEPT
                  !.clock = IF @ < NextTimer(upload).at THEN NextTimer(upload).at ELSE @,
                  !.timers = @ \ {NextTimer(upload)},
                  !.timeoutPromise = "rejected",
                  !.race = IF @ = "pending" THEN "timeout" ELSE @]
  /\ UNCHANGED <<component, state, queue, view, mounted, gameReplaced, thinkTimers,
                 moveTimers, plies, applied, ev, resets, probe, storage, sessions, pgn>>

NextUpload ==
  \/ HandleFile
  \/ TextRead
  \/ RaceSettled
  \/ DelayElapsed
  \/ TimeoutElapsed

SpecUpload == InitUpload /\ [][NextUpload]_vars

(***************************************************************************)
(* A game whose player changes sides                                       *)
(***************************************************************************)
\* handleSwitchColors, on the screen of a board: both actions are dispatched
\* by the one handler and reduced before the next render.
BoardSwitchColors ==
  /\ Rendered
  /\ resets < MaxResets
  /\ resets' = resets + 1
  /\ queue' = <<SetPlayerColor(IF view.playerColor = "white" THEN "black" ELSE "white"),
                Dispatch("RESET_GAME", "human", FALSE)>>
  /\ UNCHANGED <<component, state, view, mounted, gameReplaced, thinkTimers, moveTimers,
                 plies, applied, ev, probe, storage, sessions, pgn, upload>>

NextSides ==
  \/ Reduce
  \/ Render
  \/ MobileThinkTimeout
  \/ MobileMoveTimeout
  \/ MobileSquareClick
  \/ ChessboardThinkTimeout
  \/ ChessboardMoveTimeout
  \/ ChessboardSquareClick
  \/ Restart
  \/ UndoClick
  \/ BoardSwitchColors

SpecSides == Init /\ [][NextSides]_vars

(***************************************************************************)
(* MAKE_MOVE reduced on positions with something to take                   *)
(***************************************************************************)
\* White to move can take a queen or a knight; Black to move can take a
\* rook or a knight with the pawn that promotes; White to move can take the
\* pawn on d5 in passing.
TakingPositions ==
  {Position({<<Sq(7, 1), "wk">>, <<Sq(4, 1), "wr">>, <<Sq(7, 8), "bk">>, <<Sq(4, 5), "bq">>,
             <<Sq(1, 5), "bn">>, <<Sq(2, 3), "wn">>}, "w", 0),
   Position({<<Sq(8, 1), "wk">>, <<Sq(1, 1), "wr">>, <<Sq(3, 1), "wn">>, <<Sq(2, 2), "bp">>,
             <<Sq(8, 8), "bk">>}, "b", 0),
   [Position({<<Sq(5, 1), "wk">>, <<Sq(5, 5), "wp">>, <<Sq(5, 8), "bk">>, <<Sq(4, 5), "bp">>},
             "w", 0) EXCEPT !.ep = Sq(4, 6)]}

\* What was taken before.
TakenBefore ==
  {[white |-> <<>>, black |-> <<>>], [white |-> <<"wP">>, black |-> <<"bN">>]}

InitTaking ==
  /\ component = "MobileChessboard"
  /\ \E pos \in TakingPositions, capturedPieces \in TakenBefore :
       state = [initialState EXCEPT !.game = NewChess(pos), !.fen = pos,
                                    !.currentTurn = ColorName(pos.turn),
                                    !.capturedPieces = capturedPieces]
  /\ InitRest

\* A MAKE_MOVE dispatched with any two squares.
DispatchMove ==
  /\ queue = <<>>
  /\ ev.type = "none"
  /\ \E from \in Squares, to \in Squares, promotion \in {NoPiece, "n"} :
       queue' = <<MakeMoveAction(from, to, promotion, "human", FALSE)>>
  /\ UNCHANGED <<component, state, view, mounted, gameReplaced, thinkTimers, moveTimers,
                 plies, applied, ev, resets, probe, storage, sessions, pgn, upload>>

NextTaking ==
  \/ DispatchMove
  \/ Reduce

SpecTaking == InitTaking /\ [][NextTaking]_vars

(***************************************************************************)
(* Properties                                                              *)
(***************************************************************************)
\* The step reduces a dispatched action of the given type.
Reducing(type) == queue # <<>> /\ Head(queue).type = type /\ queue' = Tail(queue)

\* The payload names a legal move of the position.
LegalPayload(fen, payload) ==
  \E m \in LegalMoves(fen) : m.from = payload.from /\ m.to = payload.to

\* C1: every successful MAKE_MOVE appends exactly one entry, the move's
\* SAN, to moveHistory and keeps all earlier entries.
C1_HistoryAppended ==
  [][Reducing("MAKE_MOVE") /\ LegalPayload(state.fen, Head(queue).move)
       => \E m \in LegalMoves(state.fen) :
            /\ m.from = Head(queue).move.from
            /\ m.to = Head(queue).move.to
            /\ state'.moveHistory = Append(state.moveHistory, San(state.fen, m))]_vars

\* C2: an undo that follows an applied move restores the position text and
\* the moveHistory from before that move, with status "playing".
C2_UndoRestores ==
  [][Reducing("UNDO_MOVE") /\ applied.latest
       => /\ state'.fen = applied.fen
          /\ state'.moveHistory = applied.moveHistory
          /\ state'.gameStatus = "playing"]_vars

\* C3: on the mobile board, with no reset, a status "thinking" is
\* eventually left: the computer's move is applied or the status goes back
\* to "playing".
C3_ThinkingEnds == (state.gameStatus = "thinking") ~> (state.gameStatus # "thinking")

\* C4: whenever the status is not "thinking" it is the one derived from the
\* current position: checkmate, else stalemate, else draw, else playing.
C4_StatusDerived ==
  state.gameStatus # "thinking" => state.gameStatus = StatusOf(state.game)

\* C5: a MAKE_MOVE whose from/to is no legal move of the position changes
\* nothing but the selection, which it clears.
C5_IllegalMoveRejected ==
  [][Reducing("MAKE_MOVE") /\ ~LegalPayload(state.fen, Head(queue).move)
       => state' = [state EXCEPT !.selectedSquare = NoSquare, !.possibleMoves = {}]]_vars

\* An illegal MAKE_MOVE has just been reduced, and the selection is empty.
C5_Witness ==
  ev.type = "MAKE_MOVE" /\ ~ev.ok /\ state.selectedSquare = NoSquare /\ state.possibleMoves = {}

\* The game is over for a reason other than mate or stalemate.
OtherwiseOver(game) ==
  \/ game.pos.half >= HalfMoveLimit
  \/ IsInsufficientMaterial(game.pos)
  \/ IsThreefoldRepetition(game)

DerivedStatus(game) ==
  IF ~HasLegalMove(game.pos)
  THEN (IF InCheck(game.pos) THEN "checkmate" ELSE "stalemate")
  ELSE IF OtherwiseOver(game) THEN "draw" ELSE "playing"

\* C6: right after a successful MAKE_MOVE the status is checkmate when the
\* side to move has no legal move and is in check, stalemate when it has
\* none and is not in check, draw when the game is over otherwise, and
\* playing otherwise.
C6_StatusAfterMove ==
  [][Reducing("MAKE_MOVE") /\ LegalPayload(state.fen, Head(queue).move)
       => state'.gameStatus = DerivedStatus(state'.game)]_vars

\* A move has just mated on the hundredth half-move: mate comes before draw.
C6_Witness ==
  /\ ev.type = "MAKE_MOVE" /\ ev.ok
  /\ state.fen.half >= HalfMoveLimit
  /\ ~HasLegalMove(state.fen) /\ InCheck(state.fen)
  /\ state.gameStatus = "checkmate"

\* C7: a computer move chosen for a position that has been replaced since
\* (by a reset or any other change of the position) is never applied.
C7_NoStaleMove == ~(ev.type = "MAKE_MOVE" /\ ev.ok /\ ev.by = "ai" /\ ev.stale)

\* C8: a click on a square while the status is "thinking" dispatches
\* nothing and sets no timeout, so position, moveHistory, selectedSquare and
\* possibleMoves stay as they are.
C8_ClickWhileThinking ==
  [][state.gameStatus = "thinking" /\ (MobileSquareClick \/ ChessboardSquareClick)
       => queue' = <<>> /\ moveTimers' = moveTimers /\ state' = state]_vars

\* A square has been clicked while the status is "thinking".
C8_Witness == ev.type = "CLICK" /\ ~ev.ok /\ state.gameStatus = "thinking"

SameMove(m, x) == m.from = x.from /\ m.to = x.to /\ m.promotion = x.promotion

\* C9: getAIMove returns null exactly when the position has no legal move;
\* otherwise it returns a legal move of the position, the only one when
\* there is only one.
C9_EngineAnswer ==
  probe.asked =>
    /\ probe.null <=> LegalMoves(probe.game.pos) = {}
    /\ ~probe.null => \E m \in LegalMoves(probe.game.pos) : SameMove(m, probe.answer)
    /\ Cardinality(LegalMoves(probe.game.pos)) = 1 =>
         \A m \in LegalMoves(probe.game.pos) : SameMove(m, probe.answer)

\* The engine has answered on a position with exactly one legal move.
C9_Witness ==
  /\ probe.asked /\ ~probe.null
  /\ Cardinality(LegalMoves(probe.game.pos)) = 1
  /\ probe.personality = "style-based"

\* The position after 1. e4.
AfterE4 ==
  PosAfter(StartPos, CHOOSE m \in LegalMoves(StartPos) : m.from = Sq(5, 2) /\ m.to = Sq(5, 4))

\* C10: with the player White at difficulty medium, after e2e4 a reply of
\* the computer is eventually applied, it is one of Black's legal moves, and
\* moveHistory is then "e4" followed by the reply's SAN.
C10_ReplyApplied ==
  (state.fen = AfterE4 /\ state.moveHistory = <<"e4">>)
    ~> (\E m \in LegalMoves(AfterE4) :
          /\ state.fen = PosAfter(AfterE4, m)
          /\ state.moveHistory = <<"e4", San(AfterE4, m)>>)

\* C11: RESET_GAME keeps difficulty, playerColor and playerStyle and makes
\* everything else a fresh game: initial position, empty moveHistory, status
\* "playing", White to move, no selection, no lastMove, nothing captured.
C11_ResetFrame ==
  [][Reducing("RESET_GAME")
       => /\ state'.difficulty = state.difficulty
          /\ state'.playerColor = state.playerColor
          /\ state'.playerStyle = state.playerStyle
          /\ state'.game = NewChess(StartPos)
          /\ state'.fen = StartPos
          /\ state'.moveHistory = <<>>
          /\ state'.gameStatus = "playing"
          /\ state'.currentTurn = "white"
          /\ state'.selectedSquare = NoSquare
          /\ state'.possibleMoves = {}
          /\ state'.lastMove = NoMove
          /\ state'.capturedPieces = [white |-> <<>>, black |-> <<>>]]_vars

\* A game with a capture, played as Black with a style set, has just been
\* reset: the render before the reset still shows it.
C11_Witness ==
  /\ ev.type = "RESET_GAME"
  /\ view.capturedPieces.black # <<>>
  /\ view.moveHistory # <<>>
  /\ view.lastMove # NoMove
  /\ state.playerColor = "black"
  /\ state.playerStyle = SampleStyle
  /\ state.difficulty = "style"
  /\ state.fen = StartPos

\* C12: an UNDO_MOVE reduced while moveHistory is not empty takes back at
\* least the latest move: moveHistory gets shorter and the position changes,
\* the status becomes "playing", and selection and lastMove are cleared.
C12_UndoSucceeds ==
  [][Reducing("UNDO_MOVE") /\ state.moveHistory # <<>>
       => /\ Len(state'.moveHistory) < Len(state.moveHistory)
          /\ state'.fen # state.fen
          /\ state'.gameStatus = "playing"
          /\ state'.selectedSquare = NoSquare
          /\ state'.possibleMoves = {}
          /\ state'.lastMove = NoMove]_vars

\* C13: in every state a style profile is set exactly when the difficulty
\* is "style".
C13_StyleExclusive == (state.playerStyle # NoStyle) <=> (state.difficulty = "style")

\* C14: the game a LOAD_GAME leaves is a fresh initial game, or its position
\* and moveHistory are those of the snapshot under the key; and the load
\* effect dispatches nothing when a move of the snapshot cannot be replayed.
C14_RestoreConsistent ==
  [][/\ Reducing("LOAD_GAME")
          => \/ state'.fen = StartPos /\ state'.moveHistory = <<>>
             \/ state'.fen = storage.fen /\ state'.moveHistory = storage.moveHistory
     /\ (~mounted /\ mounted'
          /\ ~Replayed(NewChess(StartPos), storage'.moveHistory).ok)
          => queue' = <<>>]_vars

\* Every mating move of the position beats every other move whatever the
\* jitter: its fixed score is at least JitterSpan above the other's.
MateOnTop(game, config, moves) ==
  \A mate \in moves, other \in moves :
    SanHasMate(mate) /\ ~SanHasMate(other)
      => ScoreOf(game, config, moves, mate) >= ScoreOf(game, config, moves, other) + JitterSpan

\* C15: for every personality, in a position with a mating move each mating
\* move is scored strictly above every move that does not mate, whatever
\* the jitter.
C15_MateScoredHighest ==
  probe.asked
    => MateOnTop(probe.game,
                 [personality |-> probe.personality, playerStyle |-> probe.playerStyle],
                 VerboseMoves(probe.game))

\* C16: once the status is checkmate, stalemate or draw, no step other than
\* the reduction of a reset or an undo changes the status or the position;
\* in particular the status does not become "thinking" or "playing" again.
C16_TerminalStays ==
  [][(state.gameStatus \in {"checkmate", "stalemate", "draw"}
      /\ ~Reducing("RESET_GAME") /\ ~Reducing("UNDO_MOVE"))
       => (state'.gameStatus = state.gameStatus /\ state'.fen = state.fen)]_vars

\* C17: parsePGN on a well-formed text of two games, each starting with an
\* Event header and having more than five moves, returns exactly two
\* ParsedGames, in order, whose white, black and result are the White, Black
\* and Result header values of the respective game; on a text without any
\* header it returns the empty sequence.
C17_TwoGamesParsed ==
  pgn.parsed =>
    /\ (Len(pgn.written) = 2 /\ \A i \in 1..2 : WellFormed(pgn.written[i]))
         => (/\ Len(pgn.games) = 2
             /\ \A i \in 1..2 :
                  /\ pgn.games[i].white = pgn.written[i].white
                  /\ pgn.games[i].black = pgn.written[i].black
                  /\ pgn.games[i].result = pgn.written[i].result)
    /\ (pgn.written = <<>> => pgn.games = <<>>)

\* C18: parsePGN never fails: every ParsedGame it returns has more than five
\* recognized move tokens, and a game block that is malformed or yields five
\* or fewer valid move tokens is dropped without affecting the games parsed
\* from the other blocks, which are those parsed from the text without it.
C18_BadBlocksDropped ==
  pgn.parsed =>
    /\ \A i \in 1..Len(pgn.games) : Len(pgn.games[i].moves) > 5
    /\ pgn.games = parsePGN(WriteText(SelectSeq(pgn.written, WellFormed)))
C18_Witness ==
  /\ pgn.parsed
  /\ Len(pgn.written) = 2
  /\ pgn.written[1].kind = "glued"
  /\ pgn.written[2].kind = "noted"
  /\ Len(pgn.games) = 1
  /\ pgn.games[1].white = pgn.written[2].white
  /\ Len(pgn.games[1].moves) = 7

\* Whether a game of the texts and games of SpecPGN has the name asked for
\* in the name of one of its players, whatever the case of the letters.
Named(game, playerName) ==
  CASE playerName = "carlsen" -> "Carlsen, Magnus" \in {game.white, game.black}
    [] playerName = "Anand" -> "Anand" \in {game.white, game.black}
    [] playerName = "Kasparov" -> FALSE

\* a / b rounded to the nearest integer, a half upward: what Math.round
\* gives for the exact quotient.
Rounded(a, b) == (2 * a + b) \div (2 * b)

\* The plies of the games of the player, each game counted in full.
RECURSIVE PliesOf(_, _)
PliesOf(games, playerName) ==
  IF games = <<>> THEN 0
  ELSE (IF Named(Head(games), playerName) THEN Len(Head(games).moves) ELSE 0)
       + PliesOf(Tail(games), playerName)

\* C19: analyzePlayerStyle throws when no game's white or black name
\* contains the given name as a case-insensitive substring; otherwise, with
\* N matching games, totalGames = N and averageGameLength is the mean ply
\* count of those games rounded to the nearest integer, each game's full
\* move list counted, beyond the 80 plies analysed too.
C19_GamesAveraged ==
  pgn.analysed =>
    LET N == Cardinality({i \in 1..Len(pgn.games) : Named(pgn.games[i], pgn.playerName)})
    IN IF N = 0 THEN pgn.style.thrown
       ELSE /\ ~pgn.style.thrown
            /\ pgn.style.totalGames = N
            /\ pgn.style.averageGameLength = Rounded(PliesOf(pgn.games, pgn.playerName), N)
C19_Witness ==
  /\ pgn.analysed
  /\ pgn.playerName = "carlsen"
  /\ Len(pgn.games) = 2
  /\ Len(pgn.games[1].moves) > AnalysisWindow
  /\ pgn.games[2].black = "Carlsen, Magnus"
  /\ pgn.style.totalGames = 2
  /\ pgn.style.averageGameLength = 2 * LongGameMoves

\* C20: for every call of analyzePlayerStyle that does not throw,
\* aggressiveness and positionalVsTactical are integers in 0..100;
\* aggressiveness is round(8 * (captures + checks) / N) clamped to 0..100,
\* and positionalVsTactical is round(100 * (bishopMoves + knightMoves) /
\* total counted piece moves) when that total is positive, and 50 otherwise.
C20_StyleMetrics ==
  (pgn.analysed /\ ~pgn.style.thrown) =>
    LET N == pgn.style.totalGames
        tactics == pgn.style.tacticalPatterns.captures + pgn.style.tacticalPatterns.checks
        activity == pgn.style.pieceActivity
        minor == activity.bishopMoves + activity.knightMoves
        total == activity.queenMoves + activity.rookMoves + minor + activity.pawnMoves
    IN /\ pgn.style.aggressiveness \in 0..100
       /\ pgn.style.positionalVsTactical \in 0..100
       /\ pgn.style.aggressiveness =
            IF Rounded(8 * tactics, N) > 100 THEN 100 ELSE Rounded(8 * tactics, N)
       /\ pgn.style.positionalVsTactical =
            IF total > 0 THEN Rounded(100 * minor, total) ELSE 50

\* C21: when parsePGN takes longer on a text than the ten seconds of the
\* parsing timeout, handleFile shows the error "Parsing timeout" and goes on
\* with none of the games parsed: the race is won by the timeout.
C21_TimeoutSurfaced ==
  (/\ upload.parsePromise = "fulfilled"
   /\ upload.file.took > ParsingTimeout
   /\ upload.at \in {"waiting", "returned"})
    => /\ upload.race = "timeout"
       /\ upload.error = "Parsing timeout"
       /\ upload.games = <<>>
       /\ upload.playerStyles = <<>>

\* C22: the status is "thinking" only while the side to move is not the
\* player's side.
\* useReducer reduces the two actions of handleSwitchColors in the one render
\* that follows the handler, so the state between the two is held by no
\* render, effect or handler.
BetweenSwitchAndReset ==
  /\ ev.type = "SET_PLAYER_COLOR"
  /\ queue # <<>>
  /\ Head(queue).type = "RESET_GAME"
TopOf(personality, n) ==
  IF personality \in {"aggressive", "balanced"}
  THEN (IF n \div 5 > 1 THEN n \div 5 ELSE 1)
  ELSE (IF (3 * n) \div 10 > 1 THEN (3 * n) \div 10 ELSE 1)

\* The moves scored higher than m in a call, with the jitter of the call
\* as much in favour of m as Math.random allows: the most for m, none for
\* the others.
ScoredHigher(game, config, moves, m) ==
  LET score == [x \in moves |-> ScoreOf(game, config, moves, x)]
  IN {x \in moves : score[x] > score[m] + (JitterSpan - 1)}

\* C23: the move getAIMove returns is one of the k highest scored of the n
\* legal moves, k being 30% of n for defensive-tactical, positional and
\* style-based, 20% of n for aggressive and balanced, and at least 1: fewer
\* than k moves are scored higher than it.
C23_AmongTheTop ==
  (probe.asked /\ ~probe.null) =>
    LET moves == VerboseMoves(probe.game)
        config == [personality |-> probe.personality, playerStyle |-> probe.playerStyle]
    IN /\ probe.answer \in moves
       /\ Cardinality(ScoredHigher(probe.game, config, moves, probe.answer))
            < TopOf(probe.personality, Cardinality(moves))

\* An aggressive answer among twenty legal moves that is not the move with
\* the highest fixed score.
C23_Witness ==
  /\ probe.asked /\ ~probe.null
  /\ probe.personality = "aggressive"
  /\ LET moves == VerboseMoves(probe.game)
         config == [personality |-> probe.personality, playerStyle |-> probe.playerStyle]
     IN /\ Cardinality(moves) = 20
        /\ \E x \in moves : ScoreOf(probe.game, config, moves, x)
                                > ScoreOf(probe.game, config, moves, probe.answer)

\* The pieces of colour c that are on the board before and no longer after.
CountOn(board, p) == Cardinality({s \in Squares : board[s] = p})
TakenOff(before, after, c) == {p \in PiecesOf(c) : CountOn(after, p) < CountOn(before, p)}
EntryOf(p) == PieceColor(p) \o Upper(PieceType(p))

\* C24: a MAKE_MOVE that is carried out and takes a piece appends one entry,
\* the colour and kind of that piece, to the captured list of that piece's
\* colour and leaves the other list as it was; one that takes nothing, or
\* is not carried out, leaves both lists as they were.
C24_CaptureTracked ==
  [][Reducing("MAKE_MOVE") =>
       LET victim == Other(state.fen.turn)
           taken == TakenOff(state.fen.board, state'.fen.board, victim)
           was == state.capturedPieces
           is == state'.capturedPieces
       IN IF ~ev'.ok \/ taken = {}
          THEN is = was
          ELSE /\ Cardinality(taken) = 1
               /\ \A p \in taken :
                    IF victim = "w"
                    THEN is.white = Append(was.white, EntryOf(p)) /\ is.black = was.black
                    ELSE is.black = Append(was.black, EntryOf(p)) /\ is.white = was.white]_vars

\* The pawn on d5 has been taken in passing, after a knight was taken.
C24_Witness ==
  /\ ev.type = "MAKE_MOVE" /\ ev.ok
  /\ state.fen.board[Sq(4, 6)] = "wp"
  /\ state.fen.board[Sq(4, 5)] = Empty
  /\ state.capturedPieces = [white |-> <<"wP">>, black |-> <<"bN", "bP">>]

\* The moves of the main line of a game written, in order.
MainLine(kind) ==
  CASE kind = "line" -> <<"e4", "e5", "Nf3", "Nc6", "Bb5", "a6">>
    [] kind = "noted" -> <<"d4", "d5", "c4", "dxc4", "e4", "e5", "Nf3">>
    [] kind = "varied" -> <<"e4", "e5", "Nf3", "Nc6", "Bb5", "a6">>
    [] kind = "short" -> <<"e4", "c5", "Nf3">>
    [] OTHER -> <<>>

\* C25: the moves of a parsed game are the moves of the main line of the
\* game written, in order; no token of a comment or of a variation is among
\* them.
C25_MainLineOnly ==
  (pgn.parsed /\ \A i \in 1..Len(pgn.written) : WellFormed(pgn.written[i]))
    => /\ Len(pgn.games) = Len(pgn.written)
       /\ \A i \in 1..Len(pgn.games) : pgn.games[i].moves = MainLine(pgn.written[i].kind)

\* The kind of piece a move in standard notation moves: the piece letter, a
\* pawn when the move starts with a file, none of the five for the king and
\* for castling.
MovedKind(move) ==
  CASE At(move, 1) = "Q" -> "queenMoves"
    [] At(move, 1) = "R" -> "rookMoves"
    [] At(move, 1) = "B" -> "bishopMoves"
    [] At(move, 1) = "N" -> "knightMoves"
    [] At(move, 1) \in FileLetters -> "pawnMoves"
    [] OTHER -> "none"

\* Whether the named player has White in a game it is named in.
NamedWhite(game, playerName) ==
  CASE playerName = "carlsen" -> game.white = "Carlsen, Magnus"
    [] playerName = "Anand" -> game.white = "Anand"
    [] OTHER -> FALSE

\* The plies of the named player in the analysis window of a game, counted
\* from 1: the odd ones as White, the even ones as Black.
PliesBy(game, playerName) ==
  {i \in 1..Len(game.moves) :
     /\ i <= AnalysisWindow
     /\ (i % 2 = 1) <=> NamedWhite(game, playerName)}

RECURSIVE MovesOfKind(_, _, _)
MovesOfKind(kind, games, playerName) ==
  IF games = <<>> THEN 0
  ELSE (IF Named(Head(games), playerName)
        THEN Cardinality({i \in PliesBy(Head(games), playerName) :
                            MovedKind(Head(games).moves[i]) = kind})
        ELSE 0)
       + MovesOfKind(kind, Tail(games), playerName)

\* C26: each pieceActivity counter is the number of plies of the named
\* player, in the analysis window of the games it is named in, that move a
\* piece of the counter's kind; castling and king moves count for none.
C26_PieceActivity ==
  (pgn.analysed /\ ~pgn.style.thrown) =>
    \A kind \in {"queenMoves", "rookMoves", "bishopMoves", "knightMoves", "pawnMoves"} :
      pgn.style.pieceActivity[kind] = MovesOfKind(kind, pgn.games, pgn.playerName)

\* The plies of the named player among the last twenty of a game, counted
\* from 1.
EndgamePliesBy(game, playerName) ==
  {i \in 1..Len(game.moves) :
     /\ i > Len(game.moves) - EndgameWindow
     /\ (i % 2 = 1) <=> NamedWhite(game, playerName)}

\* Whether a move counts for a counter of the endgame.
EndgameMove(counter, move) ==
  CASE counter = "kingActivity" -> At(move, 1) = "K"
    [] counter = "pawnPushes" -> At(move, 1) \in FileLetters
    [] counter = "pieceExchanges" -> \E i \in 1..Len(move) : At(move, i) = "x"

RECURSIVE EndgameMoves(_, _, _)
EndgameMoves(counter, games, playerName) ==
  IF games = <<>> THEN 0
  ELSE (IF Named(Head(games), playerName)
        THEN Cardinality({i \in EndgamePliesBy(Head(games), playerName) :
                            EndgameMove(counter, Head(games).moves[i])})
        ELSE 0)
       + EndgameMoves(counter, Tail(games), playerName)

\* C27: every ply of the named player among the last twenty plies of a game
\* it is named in is counted for the endgame, however long the game: a king
\* move in kingActivity, a pawn move in pawnPushes, a capture in
\* pieceExchanges.
C27_EndgameCounted ==
  (pgn.analysed /\ ~pgn.style.thrown) =>
    \A counter \in {"kingActivity", "pawnPushes", "pieceExchanges"} :
      pgn.style.endgameStyle[counter] >= EndgameMoves(counter, pgn.games, pgn.playerName)

\* C28: when handleDifficultyChange of MobileChessApp has dispatched
\* SET_DIFFICULTY d and SET_PLAYER_STYLE null, the state reduced has the
\* difficulty d and no style.
C28_DifficultyPicked ==
  [][(/\ component = "MobileChessApp"
      /\ ev.type = "SET_DIFFICULTY"
      /\ Reducing("SET_PLAYER_STYLE")
      /\ Len(queue) = 1
      /\ Head(queue).style = NoStyle)
       => /\ state.difficulty \in Picked
          /\ state'.difficulty = state.difficulty
          /\ state'.playerStyle = NoStyle]_vars

\* C29: when the provider mounts with a snapshot of the session before under
\* the key, the load effect reads that snapshot: what it dispatches is the
\* restore of that snapshot, its moves, difficulty, side and style.
C29_SnapshotSurvives ==
  [][(~mounted /\ mounted' /\ sessions > 0 /\ storage.saved)
       => queue' = LoadEffect(storage)]_vars

====
